---- MODULE Spec2Model ----
(***************************************************************************)
(* Session synchronisation and phase coordination of the iro-game party    *)
(* games (survey, ranking, synchro, werewolf).  Every client is a peer;    *)
(* the only shared state is the row store and a lossy broadcast channel.   *)
(*                                                                         *)
(* The module holds one state space and several specifications over it,    *)
(* one per subsystem; a specification keeps the variables of the other     *)
(* subsystems at their idle values.                                        *)
(*   SpecAnswers   the answer tables and the submit*Response calls         *)
(*   SpecSurvey    one round of the survey game on two clients             *)
(*   SpecRanking   one round of the ranking / synchro game on two clients  *)
(*   SpecRankingResult, SpecSynchroResult   the result a client computes   *)
(*                 from the answers it holds                               *)
(*   SpecWerewolf  one werewolf game on three clients, driven by the       *)
(*                 buttons the component renders                           *)
(*   SpecVotes     the same game with handleVote called on any target      *)
(*   SpecSessions  createGameSession / getActiveGameSession on two clients *)
(*   SpecGuard     the concurrency guard of one client process             *)
(*   SpecSetup     the setup screen of the werewolf game                   *)
(*   SpecWerewolfReload   the werewolf game with page loads                *)
(*   SpecRetry     the retry loops of the services                         *)
(*   SpecSnapshot  the localStorage snapshot of the ranking component      *)
(*   SpecRounds    two questions of the survey game                        *)
(*   SpecWrites    the question and answer handlers with failing writes    *)
(*   SpecInitiator the survey round up to the answering phase, two      *)
(*                 questions                                               *)
(*   SpecGuardLive the guard under fair scheduling of its operations       *)
(*   SpecReadFails the survey round with a failing read at reveal          *)
(***************************************************************************)
EXTENDS Integers, Sequences, FiniteSets, TLC

\* ------------------------------------------------------------------ bounds
\* submit calls issued in one behaviour of SpecAnswers
MaxCalls == 2
\* questions created in one behaviour of SpecSurvey / SpecRanking
MaxQuestions == 1
\* buttons pressed for each question beyond MaxQuestions
MaxExtraActions == 2
\* store writes that fail in one behaviour of SpecWrites
MaxFailedWrites == 1
\* clock ticks in one behaviour of SpecSurvey / SpecRanking
MaxTicks == 1
\* component mounts after the first in one behaviour of SpecSurvey / SpecRanking
MaxMounts == 1
\* broadcasts in flight at a time; one sent beyond that is lost
MaxInFlight == 2
\* buttons pressed and pages loaded in one behaviour of SpecSurvey
MaxSurveyActions == 5
\* buttons pressed and pages loaded in one behaviour of SpecRanking
MaxRankingActions == 7
\* participants of the ranking game whose result is computed
MaxRankAnswers == 4
\* participants of the synchro game whose result is computed
MaxTextAnswers == 3
\* characters of an answer text
MaxTextLen == 2
\* service calls made in one behaviour of SpecRetry
MaxRetryCalls == 2
\* guarded calls made in one behaviour of SpecGuard
MaxLockCalls == 4
\* participants of the room the setup screen can read
MaxLobby == 6
\* alert() calls in one behaviour of SpecSetup
MaxAlerts == 1
\* werewolf sessions created in one behaviour of SpecWerewolf / SpecVotes
MaxWerewolfSessions == 1
\* buttons pressed in one behaviour of SpecWerewolf / SpecVotes
MaxWerewolfActions == 10
\* werewolf broadcasts still in flight when a button is pressed
MaxUnheard == 0
\* werewolf broadcasts in flight at a time; one sent beyond that is lost
MaxWerewolfInFlight == 2
\* createGameSession calls in one behaviour of SpecSessions
MaxSessionCalls == 2
\* ticks of the store's clock in one behaviour of SpecSessions
MaxClock == 1

\* --------------------------------------------------------------- constants
\* gameService.ts:298  maxRetries = isMobile ? 3 : 1
MobileMaxRetries == 3
DesktopMaxRetries == 1
JoinMobileMaxRetries == 5
JoinDesktopMaxRetries == 3
\* gameService.ts:10  const CACHE_DURATION = 2000
CACHE_DURATION == 2000

VARIABLES
  \* ---- store of record: the three answer tables
  ansTable,              \* the answer table the behaviour is about
  db_responses,          \* the table: set of rows [id, question_id, participant_id, value]
  lastAccepted,          \* history: [participant -> the value of the last write the store accepted]
  \* ---- client processes issuing submit*Response calls
  calls,                 \* sequence of calls [client, participant_id, value, retryCount, status, holder]
  gameOperationLocks,    \* [client -> set of locked keys]       (gameService.ts:5)
  gameOperationQueues,   \* [client -> [key -> seq of call ids]] (gameService.ts:6)
  \* ---- the round protocol of the survey / ranking / synchro components
  now,                   \* Date.now() in ms
  db_questions,          \* the question table: set of rows [id, questioner_id, is_active]
  channel,               \* broadcasts sent: set of [topic, event, from, to, payload]
  gameState,             \* [client -> [phase, questionId, responses, questionerId]]
  hasAnswered,           \* [client -> BOOLEAN]
  isQuestioner,          \* [client -> BOOLEAN]   (isGM in the synchro game)
  responseCache,         \* [client -> [question id -> [data, timestamp]]] (gameService.ts:9)
  questionData,          \* [client -> id of the question a running handleSubmitQuestion
                         \*            has created and not yet broadcast]
  mounts,                \* number of times a component was mounted again
  userActions,           \* number of buttons pressed and pages loaded
  appliedQuestions,      \* history: [client -> ids of the question_submitted events it handled]
  \* ---- the result screen of the ranking / synchro components
  entered,               \* history: the answers as the participants entered them
  responseValues,        \* Object.values(gameState.responses)
  resultShown,           \* <<>> while answering, <<the result rendered>> in phase results
  \* ---- the werewolf game
  werewolf_sessions,     \* the session table: sequence of rows [phase, reverse_mode]
  werewolf_assignments,  \* the assignment table: [participant -> role] of session 1
  werewolf_votes,        \* the vote table: set of rows [voter_id, target_id, vote_round]
  voteRequests,          \* history: the vote upserts sent to the store
  werewolfChannel,       \* broadcasts sent: set of [event, from, to, payload]
  werewolfState,         \* [player -> [phase, session, assignment, votes, voteRound, gameResult]]
  reverseMode,           \* [player -> BOOLEAN]
  hasVoted,              \* [player -> BOOLEAN]
  phaseButtonClicks,     \* [player -> set of participant ids]
  hasClickedPhaseButton, \* [player -> BOOLEAN]
  werewolfActions,       \* number of buttons pressed
  \* ---- game sessions
  game_sessions,         \* the session table: set of rows [id, created_by, status, created_at]
  dbClock,               \* NOW() of the store
  sessionCalls,          \* sequence of createGameSession calls [client, status, retryCount, holder]
  sessionLocks,          \* [client -> BOOLEAN]: gameOperationLocks has the createSession key
  sessionQueues,         \* [client -> seq of call ids]: gameOperationQueues of that key
  activeSession,         \* [client -> what its last getActiveGameSession returned]
  \* ---- the concurrency guard of one client process
  operationLocks,        \* [key -> BOOLEAN]: the guard's lock map has the key
  operationQueues,       \* [key -> seq of call ids]: the guard's queue of the key
  lockCalls,             \* sequence of guarded calls [key, status, holder]
  started,               \* [key -> seq of call ids] in the order their operations began
  timers,                \* seq of call ids handed to setTimeout(.., 0), oldest first
  \* ---- the setup screen of the deduction game on one client
  gameParticipants,      \* useState gameParticipants: the participants read from the store
  currentParticipant,    \* useState currentParticipant, NoPlayer for null
  setupSessions,         \* werewolf_sessions: seq of rows [citizen_topic, werewolf_topic, phase, reverse_mode]
  setupAssignments,      \* werewolf_assignments: set of rows [session_id, participant_id, role, topic]
  setupState,            \* [phase, session, assignment] of the local gameState
  setupChannel,          \* the werewolf_game_start broadcasts sent
  alerts,                \* alert() calls made
  \* ---- history of the deduction game
  clickers,              \* the participants who have pressed the phase button
  \* ---- the guesses of the deduction game
  werewolf_guesses,      \* werewolf_guesses: set of rows [werewolf_id, guessed_topic]
  \* ---- the retry loops of the services
  retryCalls,            \* sequence of calls [op, mobile, retryCount, attempts, status]
  \* ---- the snapshot a ranking component keeps in the browser
  roomStore,             \* the room in the store: [session, question, answered]
  localStorage,          \* `ranking_state_${roomId}`: <<>> or <<[state, age]>>
  rankingState,          \* [phase, questionId, sessionId, hasAnswered] of the component
  lastRestore,           \* history: <<>> or <<[read, item]>> of the last restoreGameState
  \* ---- the length of a game
  extraRounds,           \* questions a behaviour creates beyond MaxQuestions
  \* ---- store writes that fail
  failedWrites           \* history: number of createQuestion / submit* calls that threw

storeVars == <<ansTable, db_responses>>
callVars == <<lastAccepted, calls, gameOperationLocks, gameOperationQueues>>
roundVars ==
  <<now, db_questions, channel, gameState, hasAnswered, isQuestioner, responseCache,
    questionData, mounts, userActions, appliedQuestions>>

resultVars == <<entered, responseValues, resultShown>>

werewolfVars ==
  <<werewolf_sessions, werewolf_assignments, werewolf_votes, voteRequests, werewolfChannel,
    werewolfState, reverseMode, hasVoted, phaseButtonClicks, hasClickedPhaseButton,
    werewolfActions>>

sessionVars ==
  <<game_sessions, dbClock, sessionCalls, sessionLocks, sessionQueues, activeSession>>

guardVars == <<operationLocks, operationQueues, lockCalls, started, timers>>

\* the groups added after the game screens
setupVars ==
  <<gameParticipants, currentParticipant, setupSessions, setupAssignments, setupState,
    setupChannel, alerts>>

\* the groups added after the deduction game
snapVars == <<roomStore, localStorage, rankingState, lastRestore>>
laterVars == <<retryCalls, snapVars, extraRounds, failedWrites>>

extVars == <<guardVars, setupVars, clickers, werewolf_guesses, laterVars>>

vars == <<storeVars, callVars, roundVars, resultVars, werewolfVars, sessionVars, extVars>>

\* what each specification leaves idle
ansIdle == <<roundVars, resultVars, werewolfVars, sessionVars, extVars>>
roundRest == <<callVars, resultVars, werewolfVars, sessionVars, extVars>>
roundOut == <<roundRest, appliedQuestions>>
roundIdle == <<roundOut, mounts, questionData>>
\* what a broadcast handler and the clock leave alone
handlerIdle == <<roundOut, mounts, userActions, questionData>>

\* ------------------------------------------------------------ answer store
Tables == {"game_responses", "ranking_responses", "synchro_responses"}

\* the one question (round) and the participants answering it in SpecAnswers
AnsQuestion == 1
AnsParticipants == {"p1", "p2"}

\* two browser processes; isMobile is a property of the device
AnsClients == {"mobile", "desktop"}

isMobile(c) == c = "mobile"

\* response BOOLEAN / rank_choice integer / answer text (a sequence of characters)
ValuesOf(t) ==
  CASE t = "game_responses" -> BOOLEAN
    [] t = "ranking_responses" -> {1, 2}
    [] OTHER -> {<<"a">>, <<"A">>}

\* maxRetries of a call: only submitResponse retries, and only on mobile
maxRetries(c, t) ==
  IF t = "game_responses" /\ isMobile(c) THEN MobileMaxRetries ELSE DesktopMaxRetries

\* id uuid DEFAULT gen_random_uuid(): an id no row of the table has
FreshId(rows) == Cardinality(rows) + 1

\* a plain INSERT, as if the table had no UNIQUE(question_id, participant_id)
UpsertAsInsert(rows, q, p, v) ==
  rows \cup {[id |-> FreshId(rows), question_id |-> q, participant_id |-> p, value |-> v]}

\* .upsert({...}, {onConflict: 'question_id,participant_id'})
Upsert(rows, q, p, v) ==
  IF \E r \in rows : r.question_id = q /\ r.participant_id = p
  THEN {IF r.question_id = q /\ r.participant_id = p THEN [r EXCEPT !.value = v] ELSE r :
          r \in rows}
  ELSE rows \cup {[id |-> FreshId(rows), question_id |-> q, participant_id |-> p, value |-> v]}

\* the key of withGameLock(`submitResponse-${questionId}-${participantId}`)
LockKey(q, p) == <<"submitResponse", q, p>>

\* ------------------------------------------------- round protocol: state
\* the browser processes of the room; each is one participant, and every
\* component fetched the participant list (gameParticipants) when it mounted
Clients == {"p1", "p2"}

\* `game-events-${roomId}` / `ranking-game-events-${roomId}` /
\* `synchro-game-events-${roomId}`: the topic the component subscribes to
GameTopic == "game-events"
\* `${channelName}-sync`: the topic handleShowResults of the survey sends on
SyncTopic == "game-events-sync"

\* questionId: "" and questionerId: "" of the initial gameState
NoQuestion == 0
NoParticipant == ""

\* responses: {}
EmptyMap == [p \in {} |-> 0]

\* {...prev.responses, [participantId]: answer}
Put(f, k, v) == [x \in DOMAIN f \cup {k} |-> IF x = k THEN v ELSE f[x]]

\* useState<GameState>({phase: "waiting_for_question", ...})
InitialGameState ==
  [phase |-> "waiting_for_question", questionId |-> NoQuestion,
   responses |-> EmptyMap, questionerId |-> NoParticipant]

\* String.prototype.trim on a text given as a sequence of characters
RECURSIVE TrimStart(_)
TrimStart(s) == IF s # <<>> /\ Head(s) = " " THEN TrimStart(Tail(s)) ELSE s

RECURSIVE TrimEnd(_)
TrimEnd(s) ==
  IF s # <<>> /\ s[Len(s)] = " " THEN TrimEnd(SubSeq(s, 1, Len(s) - 1)) ELSE s

\* a trim that leaves trailing blanks
trimLeadingOnly(s) == TrimStart(s)

trim(s) == TrimEnd(TrimStart(s))

\* what a participant can enter: YES/NO, a rank button, a text field
InputsOf(t) ==
  CASE t = "game_responses" -> BOOLEAN
    [] t = "ranking_responses" -> 1..Cardinality(Clients)
    [] OTHER -> {<<"a">>, <<"A", " ">>}

RoundIdle ==
  /\ now = 0
  /\ db_questions = {}
  /\ channel = {}
  /\ gameState = [c \in Clients |-> InitialGameState]
  /\ hasAnswered = [c \in Clients |-> FALSE]
  /\ isQuestioner = [c \in Clients |-> FALSE]
  /\ responseCache = [c \in Clients |-> EmptyMap]
  /\ questionData = [c \in Clients |-> NoQuestion]
  /\ mounts = 0
  /\ userActions = 0
  /\ appliedQuestions = [c \in Clients |-> {}]

ResultIdle ==
  /\ entered = <<>>
  /\ responseValues = <<>>
  /\ resultShown = <<>>

\* the participants of the werewolf game (gameParticipants): at least three
Players == {"w1", "w2", "w3"}

\* the players are interchangeable: the one who starts the game is called
\* Host, and the werewolf is the host or another player, called Guest
Host == "w1"
Guest == "w2"

\* session: null
NoSession == 0

\* useState<GameState> of WerewolfGame
InitialWerewolfState ==
  [phase |-> "setup", session |-> NoSession, assignment |-> "", votes |-> EmptyMap,
   voteRound |-> 1, gameResult |-> [winner |-> "", eliminatedPlayer |-> ""]]

WerewolfIdle ==
  /\ werewolf_sessions = <<>>
  /\ werewolf_assignments = EmptyMap
  /\ werewolf_votes = {}
  /\ voteRequests = {}
  /\ werewolfChannel = {}
  /\ werewolfState = [p \in Players |-> InitialWerewolfState]
  /\ reverseMode = [p \in Players |-> FALSE]
  /\ hasVoted = [p \in Players |-> FALSE]
  /\ phaseButtonClicks = [p \in Players |-> {}]
  /\ hasClickedPhaseButton = [p \in Players |-> FALSE]
  /\ werewolfActions = 0

SessionsIdle ==
  /\ game_sessions = {}
  /\ dbClock = 0
  /\ sessionCalls = <<>>
  /\ sessionLocks = [c \in Clients |-> FALSE]
  /\ sessionQueues = [c \in Clients |-> <<>>]
  /\ activeSession = [c \in Clients |-> NoSession]

GuardKeys == {"k1", "k2"}

GuardIdle ==
  /\ operationLocks = [k \in GuardKeys |-> FALSE]
  /\ operationQueues = [k \in GuardKeys |-> <<>>]
  /\ lockCalls = <<>>
  /\ started = [k \in GuardKeys |-> <<>>]
  /\ timers = <<>>

NoPlayer == 0

\* the state of the setup screen after construction
SetupIdle ==
  /\ gameParticipants = {}
  /\ currentParticipant = NoPlayer
  /\ setupSessions = <<>>
  /\ setupAssignments = {}
  /\ setupState = [phase |-> "setup", session |-> NoSession, assignment |-> NoPlayer]
  /\ setupChannel = {}
  /\ alerts = 0

RetryIdle == retryCalls = <<>>

\* useState of RankingGame: phase "waiting_for_question", questionId "",
\* sessionId "" (the lobby passes none), hasAnswered false
InitialRankingState ==
  [phase |-> "waiting_for_question", questionId |-> NoQuestion, sessionId |-> NoSession,
   hasAnswered |-> FALSE]

SnapIdle ==
  /\ roomStore = [session |-> "none", question |-> NoQuestion, answered |-> FALSE]
  /\ localStorage = <<>>
  /\ rankingState = InitialRankingState
  /\ lastRestore = <<>>

LaterIdle ==
  /\ RetryIdle
  /\ SnapIdle
  /\ extraRounds = 0
  /\ failedWrites = 0

ExtIdle ==
  /\ GuardIdle
  /\ LaterIdle
  /\ SetupIdle
  /\ clickers = {}
  /\ werewolf_guesses = {}

CallsIdle ==
  /\ lastAccepted = [p \in AnsParticipants |-> {}]
  /\ calls = <<>>
  /\ gameOperationLocks = [c \in AnsClients |-> {}]
  /\ gameOperationQueues = [c \in AnsClients |-> [p \in AnsParticipants |-> <<>>]]

InitAnswers ==
  /\ ansTable \in Tables
  /\ db_responses = {}
  /\ CallsIdle
  /\ RoundIdle
  /\ ResultIdle
  /\ WerewolfIdle
  /\ SessionsIdle
  /\ ExtIdle

NewCall(c, p, v, st, h) ==
  [client |-> c, participant_id |-> p, value |-> v,
   retryCount |-> 0, status |-> st, holder |-> h]

\* gameService.submitResponse: withGameLock(key, ...) is entered.  A caller
\* that finds the key locked is queued; otherwise it takes the lock and runs.
submitResponse(c, p, v) ==
  /\ ansTable = "game_responses"
  /\ Len(calls) < MaxCalls
  /\ IF LockKey(AnsQuestion, p) \in gameOperationLocks[c]
     THEN /\ calls' = Append(calls, NewCall(c, p, v, "queued", FALSE))
          /\ gameOperationQueues' =
               [gameOperationQueues EXCEPT ![c][p] = Append(@, Len(calls) + 1)]
          /\ UNCHANGED gameOperationLocks
     ELSE /\ calls' = Append(calls, NewCall(c, p, v, "running", TRUE))
          /\ gameOperationLocks' =
               [gameOperationLocks EXCEPT ![c] = @ \cup {LockKey(AnsQuestion, p)}]
          /\ UNCHANGED gameOperationQueues
  /\ UNCHANGED <<ansTable, db_responses, lastAccepted, ansIdle>>

\* gameService.submitRankingResponse: no lock, no retry
submitRankingResponse(c, p, v) ==
  /\ ansTable = "ranking_responses"
  /\ Len(calls) < MaxCalls
  /\ calls' = Append(calls, NewCall(c, p, v, "running", FALSE))
  /\ UNCHANGED <<ansTable, db_responses, lastAccepted, gameOperationLocks, gameOperationQueues, ansIdle>>

\* gameService.submitSynchroResponse: no lock, no retry
submitSynchroResponse(c, p, v) ==
  /\ ansTable = "synchro_responses"
  /\ Len(calls) < MaxCalls
  /\ calls' = Append(calls, NewCall(c, p, v, "running", FALSE))
  /\ UNCHANGED <<ansTable, db_responses, lastAccepted, gameOperationLocks, gameOperationQueues, ansIdle>>

\* the finally block of withGameLock: release the key, then hand the next
\* queued operation to setTimeout(..., 0)
Release(c, p, cs) ==
  LET q == gameOperationQueues[c][p]
  IN /\ gameOperationLocks' =
          [gameOperationLocks EXCEPT ![c] = @ \ {LockKey(AnsQuestion, p)}]
     /\ IF Len(q) > 0
        THEN /\ gameOperationQueues' = [gameOperationQueues EXCEPT ![c][p] = Tail(q)]
             /\ calls' = [cs EXCEPT ![Head(q)].status = "scheduled"]
        ELSE /\ gameOperationQueues' = gameOperationQueues
             /\ calls' = cs

\* the call settles (its promise is resolved or rejected)
Settle(i, st) ==
  LET cs == [calls EXCEPT ![i].status = st]
  IN IF calls[i].holder
     THEN Release(calls[i].client, calls[i].participant_id, cs)
     ELSE /\ calls' = cs
          /\ UNCHANGED <<gameOperationLocks, gameOperationQueues>>

\* setTimeout(() => nextOperation(), 0) fires: the queued operation starts
RunQueued(i) ==
  /\ i \in 1..Len(calls)
  /\ calls[i].status = "scheduled"
  /\ calls' = [calls EXCEPT ![i].status = "running"]
  /\ UNCHANGED <<ansTable, db_responses, lastAccepted, gameOperationLocks, gameOperationQueues, ansIdle>>

\* the store applies the write of call i
StoreAccepts(i) ==
  /\ db_responses' =
       Upsert(db_responses, AnsQuestion, calls[i].participant_id, calls[i].value)
  /\ lastAccepted' = [lastAccepted EXCEPT ![calls[i].participant_id] = {calls[i].value}]

\* one attempt reaches the store, which applies the upsert and answers
AttemptOk(i) ==
  /\ i \in 1..Len(calls)
  /\ calls[i].status = "running"
  /\ StoreAccepts(i)
  /\ Settle(i, "ok")
  /\ UNCHANGED <<ansTable, ansIdle>>

\* one attempt fails at the client: either the request never reached the store
\* (applied = FALSE) or the write was applied and the answer was lost.  The
\* catch block retries while retryCount < maxRetries - 1.
AttemptFails(i, applied) ==
  /\ i \in 1..Len(calls)
  /\ calls[i].status = "running"
  /\ IF applied
     THEN StoreAccepts(i)
     ELSE UNCHANGED <<db_responses, lastAccepted>>
  /\ IF calls[i].retryCount < maxRetries(calls[i].client, ansTable) - 1
     THEN /\ calls' = [calls EXCEPT ![i].retryCount = @ + 1]
          /\ UNCHANGED <<gameOperationLocks, gameOperationQueues>>
     ELSE Settle(i, "failed")
  /\ UNCHANGED <<ansTable, ansIdle>>

NextAnswers ==
  \/ \E c \in AnsClients, p \in AnsParticipants, v \in ValuesOf("game_responses") :
       submitResponse(c, p, v)
  \/ \E c \in AnsClients, p \in AnsParticipants, v \in ValuesOf("ranking_responses") :
       submitRankingResponse(c, p, v)
  \/ \E c \in AnsClients, p \in AnsParticipants, v \in ValuesOf("synchro_responses") :
       submitSynchroResponse(c, p, v)
  \/ \E i \in 1..MaxCalls : RunQueued(i)
  \/ \E i \in 1..MaxCalls : AttemptOk(i)
  \/ \E i \in 1..MaxCalls, applied \in BOOLEAN : AttemptFails(i, applied)

SpecAnswers == InitAnswers /\ [][NextAnswers]_vars

\* ------------------------------------------------------------------ claims

RowsOf(p) == {r \in db_responses : r.question_id = AnsQuestion /\ r.participant_id = p}

\* C1: idempotent answer submission.  Whatever the interleaving of the
\* submit calls for one (round, participant), the table holds at most one row
\* for the pair; it holds none before the store accepted a write, and after
\* that exactly one, whose value is the value of the last accepted write.
C1_IdempotentSubmission ==
  \A p \in AnsParticipants :
    /\ Cardinality(RowsOf(p)) <= 1
    /\ {r.value : r \in RowsOf(p)} = lastAccepted[p]

\* two settled calls for the same pair with different values, one row left
C1_Witness ==
  \E i, j \in 1..Len(calls) :
    /\ calls[i].participant_id = calls[j].participant_id
    /\ calls[i].value # calls[j].value
    /\ calls[i].client # calls[j].client
    /\ calls[i].status = "ok" /\ calls[j].status = "ok"
    /\ Cardinality(RowsOf(calls[i].participant_id)) = 1

\* --------------------------------------------------------- round protocol
\* Date.now() granularity of the model: one tick is two seconds
TickMs == 2000

\* gameService.getQuestionResponses / getRankingResponses /
\* getSynchroResponses on a process whose responseCache is cache: the rows
\* returned and the cache left behind
getQuestionResponses(cache, q) ==
  IF q \in DOMAIN cache /\ now - cache[q].timestamp < CACHE_DURATION
  THEN [data |-> cache[q].data, cache |-> cache]
  ELSE LET data == {r \in db_responses : r.question_id = q}
       IN [data |-> data, cache |-> Put(cache, q, [data |-> data, timestamp |-> now])]

\* responses.reduce((acc, r) => ({...acc, [r.participant_id]: r.response}), {})
ResponseMap(rows) ==
  [p \in {r.participant_id : r \in rows} |->
     (CHOOSE r \in rows : r.participant_id = p).value]

\* the peers a broadcast on a topic can reach: the clients subscribed to it,
\* the sender only with broadcast: {self: true}
Subscribers(topic, from, self) ==
  IF topic = GameTopic THEN (Clients \ {from}) \cup (IF self THEN {from} ELSE {}) ELSE {}

\* channel.send({type: "broadcast", event, payload}): the message, with the
\* peers it is still to be delivered to
Msg(topic, event, from, self, payload) ==
  [topic |-> topic, event |-> event, from |-> from,
   to |-> Subscribers(topic, from, self), payload |-> payload]

\* the server forwards a broadcast to the subscribers of its topic; with none
\* the message is gone, and so is one the channel has no room for
Send(ch, msgs) ==
  LET new == {m \in msgs : m.to # {}}
  IN IF Cardinality(ch \cup new) <= MaxInFlight THEN ch \cup new ELSE ch

\* the subscription of c is removed, or c has received m
Unsubscribe(ch, c, msgs) ==
  {m \in {IF x \in msgs THEN [x EXCEPT !.to = @ \ {c}] ELSE x : x \in ch} : m.to # {}}

\* the user presses a button or loads the page
UserAction ==
  /\ userActions <
       (IF ansTable = "game_responses" THEN MaxSurveyActions ELSE MaxRankingActions)
         + extraRounds * MaxExtraActions
  /\ userActions' = userActions + 1

\* getActiveQuestions(...)[0]: is_active, latest created first
ActiveQuestions == {q \in db_questions : q.is_active}
LatestQuestion == CHOOSE q \in ActiveQuestions : \A o \in ActiveQuestions : o.id <= q.id

\* The component mounts: its state is the useState initial state, its
\* subscription is new (a broadcast sent before is not received), and the
\* restoreGameState effect reads the store.  reload: the page was loaded
\* anew, so the module-level responseCache is empty.
restoreGameState(c, reload) ==
  LET cache == IF reload THEN EmptyMap ELSE responseCache[c]
  IN /\ IF ActiveQuestions = {}
        THEN /\ gameState' = [gameState EXCEPT ![c] = InitialGameState]
             /\ hasAnswered' = [hasAnswered EXCEPT ![c] = FALSE]
             /\ isQuestioner' = [isQuestioner EXCEPT ![c] = FALSE]
             /\ responseCache' = [responseCache EXCEPT ![c] = cache]
        ELSE LET aq == LatestQuestion
                 rd == getQuestionResponses(cache, aq.id)
             IN /\ gameState' = [gameState EXCEPT ![c] =
                       [phase |-> "answering", questionId |-> aq.id,
                        responses |-> ResponseMap(rd.data),
                        questionerId |-> aq.questioner_id]]
                /\ hasAnswered' =
                     [hasAnswered EXCEPT ![c] = \E r \in rd.data : r.participant_id = c]
                /\ isQuestioner' = [isQuestioner EXCEPT ![c] = aq.questioner_id = c]
                /\ responseCache' = [responseCache EXCEPT ![c] = rd.cache]
     /\ channel' = Unsubscribe(channel, c, channel)
     /\ questionData' = [questionData EXCEPT ![c] = NoQuestion]
     /\ UserAction
     /\ mounts < MaxMounts
     /\ mounts' = mounts + 1
     /\ UNCHANGED <<now, db_questions, storeVars, roundOut>>

\* handleBecomeQuestioner / handleBecomeGM (button of phase waiting_for_question)
handleBecomeQuestioner(c) ==
  /\ UserAction
  /\ gameState[c].phase = "waiting_for_question"
  /\ Cardinality(db_questions) < MaxQuestions + extraRounds
  /\ channel' = Send(channel,
       {Msg(GameTopic, "questioner_selected", c, TRUE, [questionerId |-> c])})
  /\ isQuestioner' = [isQuestioner EXCEPT ![c] = TRUE]
  /\ gameState' = [gameState EXCEPT ![c].phase = "questioner_selected",
                                    ![c].questionerId = c]
  /\ UNCHANGED <<now, db_questions, hasAnswered, responseCache, storeVars, roundIdle>>

\* INSERT INTO game_questions ... RETURNING *: is_active DEFAULT true
createQuestion(questioner) ==
  [id |-> Cardinality(db_questions) + 1, questioner_id |-> questioner, is_active |-> TRUE]

\* the local state a questioner sets for the question it created
OwnQuestion(c, q) ==
  /\ gameState' = [gameState EXCEPT ![c] =
         [phase |-> "answering", questionId |-> q,
          responses |-> EmptyMap, questionerId |-> c]]
  /\ hasAnswered' = [hasAnswered EXCEPT ![c] = FALSE]

\* handleSubmitQuestion (form of phase questioner_selected, shown to the
\* questioner), up to the wait that precedes the send: the question is
\* created; the survey and synchro components set the local state at once.
handleSubmitQuestion(c) ==
  /\ UserAction
  /\ gameState[c].phase = "questioner_selected"
  /\ isQuestioner[c] /\ gameState[c].questionerId = c
  /\ questionData[c] = NoQuestion
  /\ Cardinality(db_questions) < MaxQuestions + extraRounds
  /\ db_questions' = db_questions \cup {createQuestion(c)}
  /\ questionData' = [questionData EXCEPT ![c] = createQuestion(c).id]
  /\ IF ansTable = "ranking_responses"
     THEN UNCHANGED <<gameState, hasAnswered>>
     ELSE OwnQuestion(c, createQuestion(c).id)
  /\ UNCHANGED <<now, channel, isQuestioner, responseCache, storeVars, roundOut, mounts>>

\* handleSubmitQuestion after the wait: question_submitted is sent, by the
\* survey and synchro components with broadcast: {self: true}; the ranking
\* component sets the local state after the send.
handleSubmitQuestion_send(c) ==
  /\ questionData[c] # NoQuestion
  /\ channel' = Send(channel,
       {Msg(GameTopic, "question_submitted", c, ansTable # "ranking_responses",
            [questionId |-> questionData[c], questionerId |-> c])})
  /\ IF ansTable = "ranking_responses"
     THEN OwnQuestion(c, questionData[c])
     ELSE UNCHANGED <<gameState, hasAnswered>>
  /\ questionData' = [questionData EXCEPT ![c] = NoQuestion]
  /\ UNCHANGED <<now, db_questions, isQuestioner, responseCache, storeVars,
                 roundOut, mounts, userActions>>

\* the body shared by handleAnswer / handleSubmitRank / handleSubmitAnswer:
\* persist the answer, broadcast it, then add it to the local responses
SubmitAnswer(c, v) ==
  /\ UserAction
  /\ ~hasAnswered[c]
  /\ gameState[c].questionId # NoQuestion
  /\ gameState[c].phase = "answering"
  /\ db_responses' = Upsert(db_responses, gameState[c].questionId, c, v)
  /\ channel' = Send(channel,
       {Msg(GameTopic, "answer_submitted", c, FALSE, [participantId |-> c, answer |-> v])})
  /\ gameState' = [gameState EXCEPT ![c].responses = Put(@, c, v)]
  /\ hasAnswered' = [hasAnswered EXCEPT ![c] = TRUE]
  /\ UNCHANGED <<ansTable, now, db_questions, isQuestioner, responseCache, roundIdle>>

\* AnonymousSurveyGame.handleAnswer(answer)
handleAnswer(c, answer) ==
  /\ ansTable = "game_responses"
  /\ SubmitAnswer(c, answer)

\* RankingGame.handleSubmitRank with selectedRank
handleSubmitRank(c, selectedRank) ==
  /\ ansTable = "ranking_responses"
  /\ SubmitAnswer(c, selectedRank)

\* SynchroGame.handleSubmitAnswer with currentAnswer
handleSubmitAnswer(c, currentAnswer) ==
  /\ ansTable = "synchro_responses"
  /\ trim(currentAnswer) # <<>>
  /\ SubmitAnswer(c, trim(currentAnswer))

\* AnonymousSurveyGame.handleShowResults (button of phase answering, shown
\* to every client once the question id is known): read the answers,
\* send sync_responses on the -sync topic, take the answers read as the
\* local responses, send show_results, enter results
Survey_handleShowResults(c) ==
  /\ UserAction
  /\ UserAction
  /\ ansTable = "game_responses"
  /\ gameState[c].phase = "answering"
  /\ gameState[c].questionId # NoQuestion
  /\ LET rd == getQuestionResponses(responseCache[c], gameState[c].questionId)
         responseMap == ResponseMap(rd.data)
     IN /\ responseCache' = [responseCache EXCEPT ![c] = rd.cache]
        /\ channel' = Send(channel,
             {Msg(SyncTopic, "sync_responses", c, FALSE, [responses |-> responseMap]),
              Msg(GameTopic, "show_results", c, FALSE, EmptyMap)})
        /\ gameState' = [gameState EXCEPT ![c].responses = responseMap,
                                          ![c].phase = "results"]
  /\ UNCHANGED <<now, db_questions, hasAnswered, isQuestioner, storeVars, roundIdle>>

\* allAnswered = Object.keys(gameState.responses).length === gameParticipants.length
allAnswered(c) == Cardinality(DOMAIN gameState[c].responses) = Cardinality(Clients)

\* the body of handleShowResults of the ranking and synchro components
\* (button shown when allAnswered and the client is the questioner / GM)
ShowResults(c) ==
  /\ UserAction
  /\ gameState[c].phase = "answering"
  /\ allAnswered(c)
  /\ gameState[c].questionerId = c
  /\ channel' = Send(channel, {Msg(GameTopic, "show_results", c, FALSE, EmptyMap)})
  /\ gameState' = [gameState EXCEPT ![c].phase = "results"]
  /\ UNCHANGED <<now, db_questions, hasAnswered, isQuestioner, responseCache,
                 storeVars, roundIdle>>

\* RankingGame.handleShowResults
Ranking_handleShowResults(c) ==
  /\ UserAction
  /\ ansTable = "ranking_responses"
  /\ ShowResults(c)

\* SynchroGame.handleShowResults
Synchro_handleShowResults(c) ==
  /\ UserAction
  /\ ansTable = "synchro_responses"
  /\ ShowResults(c)

\* handleNewRound (button of phase results)
handleNewRound(c) ==
  /\ UserAction
  /\ gameState[c].phase = "results"
  /\ channel' = Send(channel, {Msg(GameTopic, "new_round", c, FALSE, EmptyMap)})
  /\ gameState' = [gameState EXCEPT ![c] = InitialGameState]
  /\ hasAnswered' = [hasAnswered EXCEPT ![c] = FALSE]
  /\ isQuestioner' = [isQuestioner EXCEPT ![c] = FALSE]
  /\ UNCHANGED <<now, db_questions, responseCache, storeVars, roundIdle>>

\* The broadcast handlers of the component's subscription, applied to a
\* message m the channel delivers to c.
OnBroadcast(c, m) ==
  /\ m \in channel
  /\ c \in m.to
  /\ CASE m.event = "questioner_selected" ->
            /\ gameState' = [gameState EXCEPT ![c].phase = "questioner_selected",
                                              ![c].questionerId = m.payload.questionerId]
            /\ isQuestioner' = [isQuestioner EXCEPT
                                  ![c] = IF m.payload.questionerId # c THEN FALSE ELSE @]
            /\ UNCHANGED hasAnswered
       [] m.event = "question_submitted" ->
            /\ gameState' = [gameState EXCEPT ![c] =
                   [phase |-> "answering", questionId |-> m.payload.questionId,
                    responses |-> EmptyMap, questionerId |-> m.payload.questionerId]]
            /\ hasAnswered' = [hasAnswered EXCEPT ![c] = FALSE]
            /\ UNCHANGED isQuestioner
       [] m.event = "answer_submitted" ->
            /\ gameState' = [gameState EXCEPT
                   ![c].responses = Put(@, m.payload.participantId, m.payload.answer)]
            /\ UNCHANGED <<hasAnswered, isQuestioner>>
       [] m.event = "sync_responses" ->
            /\ gameState' = [gameState EXCEPT ![c].responses = m.payload.responses]
            /\ UNCHANGED <<hasAnswered, isQuestioner>>
       [] m.event = "show_results" ->
            /\ gameState' = [gameState EXCEPT ![c].phase = "results"]
            /\ UNCHANGED <<hasAnswered, isQuestioner>>
       [] m.event = "new_round" ->
            /\ gameState' = [gameState EXCEPT ![c] = InitialGameState]
            /\ hasAnswered' = [hasAnswered EXCEPT ![c] = FALSE]
            /\ isQuestioner' = [isQuestioner EXCEPT ![c] = FALSE]
  /\ channel' = Unsubscribe(channel, c, {m})
  /\ appliedQuestions' =
       IF m.event = "question_submitted"
       THEN [appliedQuestions EXCEPT ![c] = @ \cup {m.payload.questionId}]
       ELSE appliedQuestions
  /\ UNCHANGED <<now, db_questions, responseCache, storeVars, roundRest, mounts,
                 userActions, questionData>>

\* the channel delivers one of the messages in flight to c: in any order, or never
Receive(c) == \E m \in channel : OnBroadcast(c, m)

\* time passes
Tick ==
  /\ now < MaxTicks * TickMs
  /\ \E c \in Clients : \E q \in DOMAIN responseCache[c] :
       now - responseCache[c][q].timestamp < CACHE_DURATION
  /\ now' = now + TickMs
  /\ UNCHANGED <<db_questions, channel, gameState, hasAnswered, isQuestioner,
                 responseCache, storeVars, handlerIdle>>

InitSurvey ==
  /\ ansTable = "game_responses"
  /\ db_responses = {}
  /\ CallsIdle
  /\ RoundIdle
  /\ ResultIdle
  /\ WerewolfIdle
  /\ SessionsIdle
  /\ ExtIdle

NextSurvey ==
  \/ \E c \in Clients, reload \in BOOLEAN : restoreGameState(c, reload)
  \/ \E c \in Clients : handleBecomeQuestioner(c)
  \/ \E c \in Clients : handleSubmitQuestion(c)
  \/ \E c \in Clients : handleSubmitQuestion_send(c)
  \/ \E c \in Clients, v \in InputsOf("game_responses") : handleAnswer(c, v)
  \/ \E c \in Clients : Survey_handleShowResults(c)
  \/ \E c \in Clients : handleNewRound(c)
  \/ \E c \in Clients : Receive(c)
  \/ Tick

SpecSurvey == InitSurvey /\ [][NextSurvey]_vars

InitRanking ==
  /\ ansTable \in {"ranking_responses", "synchro_responses"}
  /\ db_responses = {}
  /\ CallsIdle
  /\ RoundIdle
  /\ ResultIdle
  /\ WerewolfIdle
  /\ SessionsIdle
  /\ ExtIdle

NextRanking ==
  \/ \E c \in Clients, reload \in BOOLEAN : restoreGameState(c, reload)
  \/ \E c \in Clients : handleBecomeQuestioner(c)
  \/ \E c \in Clients : handleSubmitQuestion(c)
  \/ \E c \in Clients : handleSubmitQuestion_send(c)
  \/ \E c \in Clients, v \in InputsOf("ranking_responses") : handleSubmitRank(c, v)
  \/ \E c \in Clients, v \in InputsOf("synchro_responses") : handleSubmitAnswer(c, v)
  \/ \E c \in Clients : Ranking_handleShowResults(c)
  \/ \E c \in Clients : Synchro_handleShowResults(c)
  \/ \E c \in Clients : handleNewRound(c)
  \/ \E c \in Clients : Receive(c)
  \/ Tick

SpecRanking == InitRanking /\ [][NextRanking]_vars

\* ------------------------------------------------- claims on the round
\* the answers the store holds for question q, as a responses map
StoredResponses(q) == ResponseMap({r \in db_responses : r.question_id = q})

\* C2: reveal authority in the survey game.  In the step in which a client
\* runs handleShowResults, every answer row the store holds for its question
\* from another participant A is in the answer set the client shows in the
\* results phase, whatever the client received or read before.
C2_RevealAuthority ==
  [][\A c \in Clients :
       Survey_handleShowResults(c) =>
         \A r \in db_responses :
           (r.question_id = gameState[c].questionId /\ r.participant_id # c) =>
             /\ r.participant_id \in DOMAIN gameState'[c].responses
             /\ gameState'[c].responses[r.participant_id] = r.value]_vars

\* C3: reveal re-read in the ranking and synchro games.  In the step in which
\* a client runs handleShowResults, the answer set it uses for the result
\* becomes the set of answers the store holds for the question at that moment.
C3_RevealReread ==
  [][\A c \in Clients :
       (Ranking_handleShowResults(c) \/ Synchro_handleShowResults(c)) =>
         gameState'[c].responses = StoredResponses(gameState[c].questionId)]_vars

\* C4: reveal agreement.  A subscribed client that applies show_results
\* while the revealing client shows the results of the same question, with
\* the answer set the store holds, enters the results phase with the answer
\* set of the revealing client, whichever answer broadcasts it missed.
C4_RevealAgreement ==
  [][\A c \in Clients : \A m \in channel :
       (/\ OnBroadcast(c, m)
        /\ m.event = "show_results"
        /\ gameState[m.from].phase = "results"
        /\ gameState[m.from].questionId = gameState[c].questionId
        /\ gameState[m.from].responses = StoredResponses(gameState[c].questionId))
       => gameState'[c].responses = gameState[m.from].responses]_vars

\* ------------------------------------------------------- result screens
\* what the result screens leave alone
resultOut == <<storeVars, callVars, roundVars, werewolfVars, sessionVars, extVars>>

\* new Set(values)
SetOf(values) == {values[i] : i \in DOMAIN values}

\* Array.prototype.indexOf: the first index holding x
indexOf(values, x) == CHOOSE i \in DOMAIN values : values[i] = x /\ \A j \in 1..(i - 1) : values[j] # x

\* responseValues.filter((rank, index) => responseValues.indexOf(rank) !== index)
RECURSIVE duplicatesFrom(_, _)
duplicatesFrom(values, index) ==
  IF index > Len(values) THEN <<>>
  ELSE (IF indexOf(values, values[index]) # index THEN <<values[index]>> ELSE <<>>)
         \o duplicatesFrom(values, index + 1)

duplicates(values) == duplicatesFrom(values, 1)

\* [...new Set(list)]: the distinct elements in order of first occurrence
RECURSIVE spreadSet(_)
spreadSet(list) ==
  IF list = <<>> THEN <<>>
  ELSE LET init == SubSeq(list, 1, Len(list) - 1)
           last == list[Len(list)]
       IN IF last \in SetOf(init) THEN spreadSet(init) ELSE Append(spreadSet(init), last)

\* a ranking result with any answer counted as a success
Ranking_isSuccessAnyAnswer(values) == Len(values) > 0

\* RankingGame: uniqueRanks.size === responseValues.length && responseValues.length > 0
Ranking_isSuccess(values) ==
  Cardinality(SetOf(values)) = Len(values) /\ Len(values) > 0

\* RankingGame: duplicateRanks
duplicateRanks(values) == spreadSet(duplicates(values))

\* SynchroGame: uniqueAnswers.size === 1 && responseValues.length > 0
Synchro_isSuccess(values) == Cardinality(SetOf(values)) = 1 /\ Len(values) > 0

\* the rank buttons 1..gameParticipants.length
Ranks == 1..MaxRankAnswers

\* the texts of the answer field
Chars == {"a", "A", " "}
Texts == UNION {[1..n -> Chars] : n \in 1..MaxTextLen}

InitRankingResult ==
  /\ ansTable = "ranking_responses"
  /\ db_responses = {}
  /\ CallsIdle
  /\ RoundIdle
  /\ ResultIdle
  /\ WerewolfIdle
  /\ SessionsIdle
  /\ ExtIdle

\* a participant submits selectedRank and the answer enters gameState.responses
Ranking_answer(selectedRank) ==
  /\ resultShown = <<>>
  /\ Len(responseValues) < MaxRankAnswers
  /\ entered' = Append(entered, selectedRank)
  /\ responseValues' = Append(responseValues, selectedRank)
  /\ UNCHANGED <<resultShown, resultOut>>

\* phase results of the ranking component is rendered
Ranking_results ==
  /\ resultShown = <<>>
  /\ resultShown' = <<[isSuccess |-> Ranking_isSuccess(responseValues),
                       duplicateRanks |-> duplicateRanks(responseValues)]>>
  /\ UNCHANGED <<entered, responseValues, resultOut>>

NextRankingResult ==
  \/ \E selectedRank \in Ranks : Ranking_answer(selectedRank)
  \/ Ranking_results

SpecRankingResult == InitRankingResult /\ [][NextRankingResult]_vars

InitSynchroResult ==
  /\ ansTable = "synchro_responses"
  /\ db_responses = {}
  /\ CallsIdle
  /\ RoundIdle
  /\ ResultIdle
  /\ WerewolfIdle
  /\ SessionsIdle
  /\ ExtIdle

\* a participant submits currentAnswer (SynchroGame.handleSubmitAnswer) and
\* the answer enters gameState.responses
Synchro_answer(currentAnswer) ==
  /\ resultShown = <<>>
  /\ Len(responseValues) < MaxTextAnswers
  /\ trim(currentAnswer) # <<>>
  /\ entered' = Append(entered, currentAnswer)
  /\ responseValues' = Append(responseValues, trim(currentAnswer))
  /\ UNCHANGED <<resultShown, resultOut>>

\* phase results of the synchro component is rendered
Synchro_results ==
  /\ resultShown = <<>>
  /\ resultShown' = <<[isSuccess |-> Synchro_isSuccess(responseValues)]>>
  /\ UNCHANGED <<entered, responseValues, resultOut>>

NextSynchroResult ==
  \/ \E currentAnswer \in Texts : Synchro_answer(currentAnswer)
  \/ Synchro_results

SpecSynchroResult == InitSynchroResult /\ [][NextSynchroResult]_vars

\* ------------------------------------------ claims on the result screens
\* the values of a list that occur at more than one position
SubmittedTwice(values) ==
  {values[i] : i \in {k \in DOMAIN values : \E j \in DOMAIN values : j # k /\ values[j] = values[k]}}

PairwiseDistinct(values) ==
  \A i, j \in DOMAIN values : i # j => values[i] # values[j]

\* C5 as stated: the ranking result is a success iff the submitted ranks are
\* pairwise distinct, and on failure duplicateRanks is exactly the set of the
\* ranks submitted by more than one participant.
C5_RankingPredicate_Original ==
  resultShown # <<>> =>
    /\ resultShown[1].isSuccess <=> PairwiseDistinct(entered)
    /\ ~resultShown[1].isSuccess =>
         SetOf(resultShown[1].duplicateRanks) = SubmittedTwice(entered)

\* C5 amended: the ranking result is a success iff at least one rank was
\* submitted and the submitted ranks are pairwise distinct; duplicateRanks is
\* exactly the set of the ranks submitted by more than one participant, each
\* listed once.
C5_RankingPredicate ==
  resultShown # <<>> =>
    /\ resultShown[1].isSuccess <=> (Len(entered) > 0 /\ PairwiseDistinct(entered))
    /\ SetOf(resultShown[1].duplicateRanks) = SubmittedTwice(entered)
    /\ PairwiseDistinct(resultShown[1].duplicateRanks)

\* three participants, ranks 1, 2, 2: a failure reporting the collision on 2
C5_Witness ==
  /\ entered = <<1, 2, 2>>
  /\ resultShown = <<[isSuccess |-> FALSE, duplicateRanks |-> <<2>>]>>

\* a text without its leading and trailing blanks
Stripped(text) ==
  LET solid == {i \in DOMAIN text : text[i] # " "}
  IN IF solid = {} THEN <<>>
     ELSE SubSeq(text, CHOOSE i \in solid : \A j \in solid : i <= j,
                       CHOOSE i \in solid : \A j \in solid : i >= j)

\* C6 as stated, for a result with at least one answer: the synchro result
\* is a success iff the texts the participants entered are all identical,
\* compared exactly as entered.
C6_SynchroPredicate_Original ==
  (resultShown # <<>> /\ Len(entered) > 0) =>
    (resultShown[1].isSuccess <=> \A i, j \in DOMAIN entered : entered[i] = entered[j])

\* C6 amended: the synchro result is a success iff at least one answer was
\* submitted and the entered texts, stripped of leading and trailing blanks,
\* are all identical; case and inner blanks are compared as entered.
C6_SynchroPredicate ==
  resultShown # <<>> =>
    (resultShown[1].isSuccess <=>
       /\ Len(entered) > 0
       /\ \A i, j \in DOMAIN entered : Stripped(entered[i]) = Stripped(entered[j]))

\* two participants enter "a" and "a ": shown as a success
C6_Witness ==
  /\ entered = <<<<"a">>, <<"a", " ">>>>
  /\ resultShown = <<[isSuccess |-> TRUE]>>

\* --------------------------------------------------------- werewolf game
\* what the werewolf game leaves alone
werewolfOut ==
  <<storeVars, callVars, roundVars, resultVars, sessionVars, guardVars, setupVars,
    laterVars>>

\* the component of every player subscribes to `werewolf-game-events-${roomId}`;
\* a sender receives its own broadcast only with config {broadcast: {self: true}}
WerewolfSubscribers(from, self) ==
  (Players \ {from}) \cup (IF self THEN {from} ELSE {})

WerewolfMsg(event, from, self, payload) ==
  [event |-> event, from |-> from, to |-> WerewolfSubscribers(from, self),
   payload |-> payload]

\* channel.send: a message the channel has no room for is lost
WerewolfSend(ch, m) ==
  IF Cardinality(ch \cup {m}) <= MaxWerewolfInFlight THEN ch \cup {m} ELSE ch

\* player p has received m
WerewolfDelivered(ch, p, m) ==
  {x \in {IF y = m THEN [y EXCEPT !.to = @ \ {p}] ELSE y : y \in ch} : x.to # {}}

\* the user presses a button
WerewolfAction ==
  /\ werewolfActions < MaxWerewolfActions
  /\ Cardinality(werewolfChannel) <= MaxUnheard
  /\ werewolfActions' = werewolfActions + 1

\* werewolfService.updatePhase
updatePhase(sessionId, phase) ==
  werewolf_sessions' = [werewolf_sessions EXCEPT ![sessionId].phase = phase]

\* the broadcast of handlePhaseChange
PhaseChangeMsg(p, newPhase) ==
  WerewolfMsg("werewolf_phase_change", p, FALSE, [phase |-> newPhase])

\* WerewolfGame.handlePhaseChange: the phase is written to the store and
\* then broadcast on the default channel
handlePhaseChange(p, sessionId, newPhase, ch) ==
  /\ updatePhase(sessionId, newPhase)
  /\ werewolfChannel' = WerewolfSend(ch, PhaseChangeMsg(p, newPhase))

\* WerewolfGame.handleGameStart: the session and the own assignment are read
\* from the store; the local phase becomes talk
handleGameStart(p, sessions, assignments, sessionId, reverse) ==
  IF sessionId \in DOMAIN sessions
  THEN /\ werewolfState' =
            [werewolfState EXCEPT ![p] =
               [@ EXCEPT !.session = sessionId, !.assignment = assignments[p],
                         !.phase = "talk"]]
       /\ reverseMode' = [reverseMode EXCEPT ![p] = reverse]
  ELSE UNCHANGED <<werewolfState, reverseMode>>

\* the topic pair of the session, as texts
CitizenTopic == <<"a">>
WerewolfTopic == <<"A">>

\* WerewolfGame.handleStartGame: createSession, assignRoles (one werewolf
\* among three), handleGameStart locally, then werewolf_game_start with
\* self: true
handleStartGame(p, reverse, wolf) ==
  /\ WerewolfAction
  /\ werewolfState[p].phase = "setup"
  /\ Cardinality(Players) >= 3
  /\ Len(werewolf_sessions) < MaxWerewolfSessions
  /\ LET sessionId == Len(werewolf_sessions) + 1
         sessions == Append(werewolf_sessions,
                            [phase |-> "setup", reverse_mode |-> reverse,
                             citizen_topic |-> CitizenTopic,
                             werewolf_topic |-> WerewolfTopic])
         assignments == [q \in Players |-> IF q = wolf THEN "werewolf" ELSE "citizen"]
     IN /\ werewolf_sessions' = sessions
        /\ werewolf_assignments' = assignments
        /\ handleGameStart(p, sessions, assignments, sessionId, reverse)
        /\ werewolfChannel' =
             WerewolfSend(werewolfChannel,
                          WerewolfMsg("werewolf_game_start", p, TRUE,
                                      [sessionId |-> sessionId, reverseMode |-> reverse]))
  /\ UNCHANGED <<werewolf_votes, voteRequests, hasVoted, phaseButtonClicks,
                 hasClickedPhaseButton, clickers, werewolf_guesses, werewolfOut>>

\* a quorum of one
quorumOfOne(n) == n >= 1

\* newClickCount >= 2, newSet.size >= 2
quorumReached(n) == n >= 2

\* WerewolfGame.handlePhaseButtonClick (button of the talk and sudden_death
\* phases): with the second click the phase is changed to vote
handlePhaseButtonClick(p) ==
  /\ WerewolfAction
  /\ werewolfState[p].phase \in {"talk", "sudden_death"}
  /\ werewolfState[p].assignment # ""
  /\ ~hasClickedPhaseButton[p]
  /\ hasClickedPhaseButton' = [hasClickedPhaseButton EXCEPT ![p] = TRUE]
  /\ phaseButtonClicks' = [phaseButtonClicks EXCEPT ![p] = @ \cup {p}]
  /\ clickers' = clickers \cup {p}
  /\ LET sent == WerewolfSend(werewolfChannel,
                              WerewolfMsg("werewolf_phase_button_click", p, FALSE,
                                          [participantId |-> p]))
     IN IF quorumReached(Cardinality(phaseButtonClicks[p]) + 1) /\ werewolfState[p].session # NoSession
        THEN handlePhaseChange(p, werewolfState[p].session, "vote", sent)
        ELSE /\ werewolfChannel' = sent
             /\ UNCHANGED werewolf_sessions
  /\ UNCHANGED <<werewolf_assignments, werewolf_votes, voteRequests, werewolfState,
                 reverseMode, hasVoted, werewolf_guesses, werewolfOut>>

\* CHECK (voter_id != target_id) of werewolf_votes, always passing
VoteCheckOff(row) == TRUE

\* CHECK (voter_id != target_id) of werewolf_votes
VoteCheck(row) == row.voter_id # row.target_id

\* a plain insert, as if the table had no UNIQUE(session_id, voter_id, vote_round)
VoteInsert(rows, row) == rows \cup {row}

\* werewolfService.submitVote: upsert on (session_id, voter_id, vote_round)
VoteUpsert(rows, row) ==
  {r \in rows : ~(r.voter_id = row.voter_id /\ r.vote_round = row.vote_round)} \cup {row}

\* WerewolfGame.handleVote: the vote is sent to the store; when the store
\* refuses it the handler alerts and changes nothing
handleVote(p, targetId) ==
  /\ WerewolfAction
  /\ werewolfState[p].phase = "vote"
  /\ werewolfState[p].session # NoSession
  /\ ~hasVoted[p]
  /\ LET row == [voter_id |-> p, target_id |-> targetId,
                 vote_round |-> werewolfState[p].voteRound]
     IN /\ voteRequests' = voteRequests \cup {row}
        /\ IF VoteCheck(row)
           THEN /\ werewolf_votes' = VoteUpsert(werewolf_votes, row)
                /\ hasVoted' = [hasVoted EXCEPT ![p] = TRUE]
                /\ werewolfState' =
                     [werewolfState EXCEPT ![p].votes = Put(@, p, targetId)]
                /\ werewolfChannel' =
                     WerewolfSend(werewolfChannel,
                                  WerewolfMsg("werewolf_vote_submitted", p, FALSE,
                                              [voterId |-> p, targetId |-> targetId]))
           ELSE UNCHANGED <<werewolf_votes, hasVoted, werewolfState, werewolfChannel>>
  /\ UNCHANGED <<werewolf_sessions, werewolf_assignments, reverseMode, phaseButtonClicks,
                 hasClickedPhaseButton, clickers, werewolf_guesses, werewolfOut>>

\* werewolfService.getVotes(sessionId, voteRound)
getVotes(voteRound) == {v \in werewolf_votes : v.vote_round = voteRound}

\* voteCount of handleShowResults
voteCount(votes) ==
  [id \in {v.target_id : v \in votes} |-> Cardinality({v \in votes : v.target_id = id})]

\* maxVotes of handleShowResults
maxVotes(votes) ==
  CHOOSE n \in {voteCount(votes)[id] : id \in DOMAIN voteCount(votes)} :
    \A id \in DOMAIN voteCount(votes) : voteCount(votes)[id] <= n

\* a tally that keeps one of the candidates with the most votes
eliminatedOne(votes) ==
  {CHOOSE id \in DOMAIN voteCount(votes) : voteCount(votes)[id] = maxVotes(votes)}

\* eliminatedCandidates of handleShowResults
eliminatedCandidates(votes) ==
  {id \in DOMAIN voteCount(votes) : voteCount(votes)[id] = maxVotes(votes)}

\* the werewolf_game_end broadcast
GameEndMsg(p, result) == WerewolfMsg("werewolf_game_end", p, FALSE, [result |-> result])

\* WerewolfGame.handleShowResults (button of the vote phase)
handleShowResults(p) ==
  LET st == werewolfState[p]
      votes == getVotes(st.voteRound)
  IN /\ WerewolfAction
     /\ st.phase = "vote"
     /\ st.session # NoSession
     /\ votes # {}
     /\ IF Cardinality(eliminatedCandidates(votes)) > 1
        THEN IF st.phase = "sudden_death"
             THEN LET result == [winner |-> "werewolf", eliminatedPlayer |-> ""]
                  IN /\ werewolfState' =
                          [werewolfState EXCEPT ![p] =
                             [@ EXCEPT !.phase = "finished", !.gameResult = result]]
                     /\ werewolfChannel' = WerewolfSend(werewolfChannel, GameEndMsg(p, result))
                     /\ UNCHANGED werewolf_sessions
             ELSE /\ werewolfState' = [werewolfState EXCEPT ![p].voteRound = @ + 1]
                  /\ handlePhaseChange(p, st.session, "sudden_death", werewolfChannel)
        ELSE LET eliminatedId == CHOOSE id \in eliminatedCandidates(votes) : TRUE
                 isWerewolfEliminated == werewolf_assignments[eliminatedId] = "werewolf"
             IN IF isWerewolfEliminated /\ reverseMode[p]
                THEN /\ handlePhaseChange(p, st.session, "reverse_chance", werewolfChannel)
                     /\ UNCHANGED werewolfState
                ELSE LET result ==
                           [winner |-> IF isWerewolfEliminated THEN "citizen" ELSE "werewolf",
                            eliminatedPlayer |-> eliminatedId]
                     IN /\ werewolfState' =
                             [werewolfState EXCEPT ![p] =
                                [@ EXCEPT !.phase = "finished", !.gameResult = result]]
                        /\ werewolfChannel' =
                             WerewolfSend(werewolfChannel, GameEndMsg(p, result))
                        /\ UNCHANGED werewolf_sessions
     /\ UNCHANGED <<werewolf_assignments, werewolf_votes, voteRequests, reverseMode, hasVoted,
                    phaseButtonClicks, hasClickedPhaseButton, clickers, werewolf_guesses,
                    werewolfOut>>

\* werewolfGuess.trim()
guessTrimmed(s) == trim(s)

\* werewolfService.submitGuess: upsert on (session_id, werewolf_id)
GuessUpsert(rows, row) == {r \in rows : r.werewolf_id # row.werewolf_id} \cup {row}

\* WerewolfGame.handleWerewolfGuess (button of the reverse_chance phase, shown
\* to the werewolf): the trimmed guess is stored and compared with the
\* citizen topic, and werewolf_game_end is sent to the other clients
handleWerewolfGuess(p, werewolfGuess) ==
  /\ WerewolfAction
  /\ werewolfState[p].phase = "reverse_chance"
  /\ werewolfState[p].assignment = "werewolf"
  /\ werewolfState[p].session # NoSession
  /\ guessTrimmed(werewolfGuess) # <<>>
  /\ werewolf_guesses' =
       GuessUpsert(werewolf_guesses,
                   [werewolf_id |-> p, guessed_topic |-> guessTrimmed(werewolfGuess)])
  /\ LET isCorrect ==
           guessTrimmed(werewolfGuess) =
             werewolf_sessions[werewolfState[p].session].citizen_topic
         result == [winner |-> IF isCorrect THEN "werewolf" ELSE "citizen",
                    eliminatedPlayer |-> p]
     IN werewolfChannel' = WerewolfSend(werewolfChannel, GameEndMsg(p, result))
  /\ UNCHANGED <<werewolf_sessions, werewolf_assignments, werewolf_votes, voteRequests,
                 werewolfState, reverseMode, hasVoted, phaseButtonClicks,
                 hasClickedPhaseButton, clickers, werewolfOut>>

\* what the handlers of one client read and set
WerewolfLocal(p) ==
  [gameState |-> werewolfState[p], hasVoted |-> hasVoted[p],
   phaseButtonClicks |-> phaseButtonClicks[p],
   hasClickedPhaseButton |-> hasClickedPhaseButton[p]]

\* the handlers of werewolf_phase_change, werewolf_vote_submitted,
\* werewolf_phase_button_click and werewolf_game_end applied to the local
\* state l: the local state they leave, and in phaseChange the session
\* handlePhaseChange(session, "vote") is called with, NoSession for no call
onWerewolfEvent(m, l) ==
  CASE m.event = "werewolf_phase_change" ->
         [local |->
            [gameState |->
               [l.gameState EXCEPT !.phase = m.payload.phase,
                                   !.votes = IF m.payload.phase \in {"vote", "sudden_death"}
                                             THEN EmptyMap ELSE @],
             hasVoted |-> IF m.payload.phase \in {"vote", "sudden_death"}
                          THEN FALSE ELSE l.hasVoted,
             phaseButtonClicks |-> {},
             hasClickedPhaseButton |-> FALSE],
          phaseChange |-> NoSession]
    [] m.event = "werewolf_vote_submitted" ->
         [local |->
            [l EXCEPT !.gameState.votes = Put(@, m.payload.voterId, m.payload.targetId)],
          phaseChange |-> NoSession]
    [] m.event = "werewolf_phase_button_click" ->
         [local |-> [l EXCEPT !.phaseButtonClicks = @ \cup {m.payload.participantId}],
          phaseChange |->
            IF /\ quorumReached(Cardinality(l.phaseButtonClicks \cup {m.payload.participantId}))
               /\ l.gameState.session # NoSession
            THEN l.gameState.session ELSE NoSession]
    [] m.event = "werewolf_game_end" ->
         [local |->
            [l EXCEPT !.gameState =
               [@ EXCEPT !.phase = "finished", !.gameResult = m.payload.result]],
          phaseChange |-> NoSession]

\* the broadcast handlers of WerewolfGame
OnWerewolfBroadcast(p, m) ==
  /\ m \in werewolfChannel
  /\ p \in m.to
  /\ IF m.event = "werewolf_game_start"
     THEN /\ handleGameStart(p, werewolf_sessions, werewolf_assignments,
                             m.payload.sessionId, m.payload.reverseMode)
          /\ werewolfChannel' = WerewolfDelivered(werewolfChannel, p, m)
          /\ UNCHANGED <<werewolf_sessions, hasVoted, phaseButtonClicks,
                         hasClickedPhaseButton>>
     ELSE LET r == onWerewolfEvent(m, WerewolfLocal(p))
          IN /\ werewolfState' = [werewolfState EXCEPT ![p] = r.local.gameState]
             /\ hasVoted' = [hasVoted EXCEPT ![p] = r.local.hasVoted]
             /\ phaseButtonClicks' =
                  [phaseButtonClicks EXCEPT ![p] = r.local.phaseButtonClicks]
             /\ hasClickedPhaseButton' =
                  [hasClickedPhaseButton EXCEPT ![p] = r.local.hasClickedPhaseButton]
             /\ IF r.phaseChange # NoSession
                THEN handlePhaseChange(p, r.phaseChange, "vote",
                                       WerewolfDelivered(werewolfChannel, p, m))
                ELSE /\ werewolfChannel' = WerewolfDelivered(werewolfChannel, p, m)
                     /\ UNCHANGED werewolf_sessions
             /\ UNCHANGED reverseMode
  /\ UNCHANGED <<werewolf_assignments, werewolf_votes, voteRequests, werewolfActions,
                 clickers, werewolf_guesses, werewolfOut>>

WerewolfReceive(p) == \E m \in werewolfChannel : OnWerewolfBroadcast(p, m)

InitWerewolf ==
  /\ ansTable = "game_responses"
  /\ db_responses = {}
  /\ CallsIdle
  /\ RoundIdle
  /\ ResultIdle
  /\ WerewolfIdle
  /\ SessionsIdle
  /\ ExtIdle

\* the candidate buttons of the vote phase: every participant but oneself
NextWerewolf ==
  \/ \E reverse \in BOOLEAN, wolf \in {Host, Guest} : handleStartGame(Host, reverse, wolf)
  \/ \E p \in Players : handlePhaseButtonClick(p)
  \/ \E p \in Players : \E targetId \in Players \ {p} : handleVote(p, targetId)
  \/ \E p \in Players : handleShowResults(p)
  \/ \E p \in Players, werewolfGuess \in Texts : handleWerewolfGuess(p, werewolfGuess)
  \/ \E p \in Players : WerewolfReceive(p)

SpecWerewolf == InitWerewolf /\ [][NextWerewolf]_vars

\* handleVote called with any participant id
NextVotes ==
  \/ \E reverse \in BOOLEAN, wolf \in {Host, Guest} : handleStartGame(Host, reverse, wolf)
  \/ \E p \in Players : handlePhaseButtonClick(p)
  \/ \E p \in Players : \E targetId \in Players : handleVote(p, targetId)
  \/ \E p \in Players : handleShowResults(p)
  \/ \E p \in Players : WerewolfReceive(p)

SpecVotes == InitWerewolf /\ [][NextVotes]_vars

\* ------------------------------------------- claims on the werewolf game
\* the votes a candidate holds
Tally(votes, id) == Cardinality({v \in votes : v.target_id = id})

\* more than one candidate holds the maximum vote count
Tied(votes) ==
  \E a, b \in Players :
    /\ a # b
    /\ Tally(votes, a) > 0
    /\ Tally(votes, a) = Tally(votes, b)
    /\ \A id \in Players : Tally(votes, id) <= Tally(votes, a)

Escalated == \E q \in Players : werewolfState[q].voteRound > 1

\* C8: once the game has escalated to sudden death, a tally in which more
\* than one candidate again holds the maximum vote count ends the game:
\* the tallying client is in finished with winner werewolf, and its vote
\* round is not incremented.
C8_SuddenDeathDeadlock ==
  [][\A p \in Players :
       (/\ handleShowResults(p)
        /\ Escalated
        /\ \A m \in werewolfChannel : m.event # "werewolf_phase_change"
        /\ Tied(getVotes(werewolfState[p].voteRound))) =>
         /\ werewolfState'[p].phase = "finished"
         /\ werewolfState'[p].gameResult.winner = "werewolf"
         /\ werewolfState'[p].voteRound = werewolfState[p].voteRound]_vars

\* C9 as stated: a handleVote call whose target is the voter sends no write
\* to the store.
C9_SelfVoteNotSent ==
  [][\A p \in Players : handleVote(p, p) => voteRequests' = voteRequests]_vars

\* C9 amended: a handleVote call whose target is the voter sends its upsert
\* to the store, which refuses it; the vote table, the voted flag and the
\* local votes of the caller stay as they were and nothing is broadcast, and
\* no row with voter_id = target_id ever exists in the vote table.
C9_SelfVoteRefused ==
  [][/\ \A r \in werewolf_votes' : r.voter_id # r.target_id
     /\ \A p \in Players :
          handleVote(p, p) =>
            /\ [voter_id |-> p, target_id |-> p,
                vote_round |-> werewolfState[p].voteRound] \in voteRequests'
            /\ UNCHANGED <<werewolf_votes, hasVoted, werewolfState, werewolfChannel>>]_vars

\* a self-vote was sent to the store and the table has no such row
C9_Witness ==
  /\ \E r \in voteRequests : r.voter_id = r.target_id
  /\ \A r \in werewolf_votes : r.voter_id # r.target_id
  /\ \E p \in Players : werewolfState[p].phase = "vote"

\* --------------------------------------------------------- game sessions
\* what the session calls leave alone
sessionOut == <<storeVars, callVars, roundVars, resultVars, werewolfVars, extVars>>

\* maxRetries = isMobile ? 3 : 1 of createGameSession; p1 runs on a mobile
\* browser, p2 on a desktop
sessionMaxRetries(c) == IF c = "p1" THEN MobileMaxRetries ELSE DesktopMaxRetries

NewSessionCall(c, st, h) == [client |-> c, status |-> st, retryCount |-> 0, holder |-> h]

\* gameService.createGameSession: withGameLock(`createSession-${roomId}-${gameType}`)
\* is entered; a caller that finds the key locked is queued
createGameSession(c) ==
  /\ Len(sessionCalls) < MaxSessionCalls
  /\ IF sessionLocks[c]
     THEN /\ sessionCalls' = Append(sessionCalls, NewSessionCall(c, "queued", FALSE))
          /\ sessionQueues' = [sessionQueues EXCEPT ![c] = Append(@, Len(sessionCalls) + 1)]
          /\ UNCHANGED sessionLocks
     ELSE /\ sessionCalls' = Append(sessionCalls, NewSessionCall(c, "running", TRUE))
          /\ sessionLocks' = [sessionLocks EXCEPT ![c] = TRUE]
          /\ UNCHANGED sessionQueues
  /\ UNCHANGED <<game_sessions, dbClock, activeSession, sessionOut>>

\* the call settles; the lock holder runs the finally block of withGameLock
SessionSettle(i, st) ==
  LET c == sessionCalls[i].client
      cs == [sessionCalls EXCEPT ![i].status = st]
      q == sessionQueues[c]
  IN IF sessionCalls[i].holder
     THEN /\ sessionLocks' = [sessionLocks EXCEPT ![c] = FALSE]
          /\ IF Len(q) > 0
             THEN /\ sessionQueues' = [sessionQueues EXCEPT ![c] = Tail(q)]
                  /\ sessionCalls' = [cs EXCEPT ![Head(q)].status = "scheduled"]
             ELSE /\ sessionQueues' = sessionQueues
                  /\ sessionCalls' = cs
     ELSE /\ sessionCalls' = cs
          /\ UNCHANGED <<sessionLocks, sessionQueues>>

\* setTimeout(() => nextOperation(), 0) fires
SessionRunQueued(i) ==
  /\ i \in 1..Len(sessionCalls)
  /\ sessionCalls[i].status = "scheduled"
  /\ sessionCalls' = [sessionCalls EXCEPT ![i].status = "running"]
  /\ UNCHANGED <<game_sessions, dbClock, sessionLocks, sessionQueues, activeSession, sessionOut>>

\* .from('game_sessions').insert({status: 'active', created_by}): the id is
\* fresh and created_at is DEFAULT NOW()
InsertSession(rows, c) ==
  rows \cup {[id |-> Cardinality(rows) + 1, created_by |-> c, status |-> "active",
              created_at |-> dbClock]}

\* attemptCreateSession: the insert is applied and answered
attemptCreateSession(i) ==
  /\ i \in 1..Len(sessionCalls)
  /\ sessionCalls[i].status = "running"
  /\ game_sessions' = InsertSession(game_sessions, sessionCalls[i].client)
  /\ SessionSettle(i, "ok")
  /\ UNCHANGED <<dbClock, activeSession, sessionOut>>

\* attemptCreateSession throws: the request never reached the store, or the
\* insert was applied and the answer lost; the catch block retries while
\* retryCount < maxRetries - 1
attemptCreateSession_catch(i, applied) ==
  /\ i \in 1..Len(sessionCalls)
  /\ sessionCalls[i].status = "running"
  /\ game_sessions' = IF applied THEN InsertSession(game_sessions, sessionCalls[i].client)
                      ELSE game_sessions
  /\ IF sessionCalls[i].retryCount < sessionMaxRetries(sessionCalls[i].client) - 1
     THEN /\ sessionCalls' = [sessionCalls EXCEPT ![i].retryCount = @ + 1]
          /\ UNCHANGED <<sessionLocks, sessionQueues>>
     ELSE SessionSettle(i, "failed")
  /\ UNCHANGED <<dbClock, activeSession, sessionOut>>

\* the filter on status left out
AnyStatusRows == game_sessions

\* .eq('status', 'active')
ActiveRows == {r \in game_sessions : r.status = "active"}

\* .order('created_at', {ascending: false}).limit(1): the rows that can come
\* first; rows of equal created_at come in either order
OrderDescending(rows) == {r \in rows : \A x \in rows : x.created_at <= r.created_at}

\* gameService.getActiveGameSession: null when there is no active row and
\* when the read fails
getActiveGameSession(c, ok) ==
  /\ IF ok /\ ActiveRows # {}
     THEN \E r \in OrderDescending(ActiveRows) :
            activeSession' = [activeSession EXCEPT ![c] = r.id]
     ELSE activeSession' = [activeSession EXCEPT ![c] = NoSession]
  /\ UNCHANGED <<game_sessions, dbClock, sessionCalls, sessionLocks, sessionQueues, sessionOut>>

\* gameService.endGameSession of the session the client holds: the row is
\* completed and the client's responseCache is cleared
endGameSession(c) ==
  /\ activeSession[c] # NoSession
  /\ game_sessions' =
       {IF r.id = activeSession[c] THEN [r EXCEPT !.status = "completed"] ELSE r :
          r \in game_sessions}
  /\ responseCache' = [responseCache EXCEPT ![c] = EmptyMap]
  /\ UNCHANGED <<dbClock, sessionCalls, sessionLocks, sessionQueues, activeSession,
                 now, db_questions, channel, gameState, hasAnswered, isQuestioner,
                 questionData, mounts, userActions, appliedQuestions,
                 storeVars, callVars, resultVars, werewolfVars, extVars>>

\* the clock of the store advances
ClockTick ==
  /\ dbClock < MaxClock
  /\ dbClock' = dbClock + 1
  /\ UNCHANGED <<game_sessions, sessionCalls, sessionLocks, sessionQueues, activeSession,
                 sessionOut>>

InitSessions ==
  /\ ansTable = "game_responses"
  /\ db_responses = {}
  /\ CallsIdle
  /\ RoundIdle
  /\ ResultIdle
  /\ WerewolfIdle
  /\ SessionsIdle
  /\ ExtIdle

NextSessions ==
  \/ \E c \in Clients : createGameSession(c)
  \/ \E i \in 1..MaxSessionCalls : SessionRunQueued(i)
  \/ \E i \in 1..MaxSessionCalls : attemptCreateSession(i)
  \/ \E i \in 1..MaxSessionCalls, applied \in BOOLEAN : attemptCreateSession_catch(i, applied)
  \/ \E c \in Clients, ok \in BOOLEAN : getActiveGameSession(c, ok)
  \/ \E c \in Clients : endGameSession(c)
  \/ ClockTick

SpecSessions == InitSessions /\ [][NextSessions]_vars

\* ------------------------------------------------ claims on the sessions
\* both clients have a row of their own, and no createGameSession is running
BothInserted ==
  /\ \A c \in Clients : \E r \in game_sessions : r.created_by = c
  /\ \A i \in 1..Len(sessionCalls) : sessionCalls[i].status \in {"ok", "failed"}

\* C10: once createGameSession calls of two clients have each persisted a
\* row and have completed, every getActiveGameSession that reads the store
\* returns the active row with the greatest created_at, and it returns the
\* row any other client holds from a read that would still return it.
C10_SessionUniqueness ==
  [][\A c \in Clients :
       (getActiveGameSession(c, TRUE) /\ BothInserted /\ ActiveRows # {}) =>
         /\ \E r \in ActiveRows :
              /\ activeSession'[c] = r.id
              /\ \A x \in ActiveRows \ {r} : x.created_at < r.created_at
         /\ \A d \in Clients :
              activeSession[d] \in {r.id : r \in OrderDescending(ActiveRows)} =>
                activeSession'[c] = activeSession[d]]_vars

\* the createGameSession calls of client c, in call order
SessionCallsOf(c) ==
  SelectSeq([i \in 1..Len(sessionCalls) |-> i], LAMBDA i : sessionCalls[i].client = c)

\* client c made two calls, the second while the first was in flight, and
\* both have returned a session
DoubleClick(c) ==
  /\ Len(SessionCallsOf(c)) = 2
  /\ ~sessionCalls[SessionCallsOf(c)[2]].holder
  /\ \A i \in 1..Len(sessionCalls) :
       sessionCalls[i].client = c => sessionCalls[i].status = "ok"

\* C12: two overlapping createGameSession calls of one client process, the
\* second made while the first is in flight, leave exactly one new row.
C12_DoubleClickOneRow ==
  \A c \in Clients :
    DoubleClick(c) => Cardinality({r \in game_sessions : r.created_by = c}) = 1

\* C13: endGameSession leaves the session completed, a completed session
\* stays completed in every later step, and getActiveGameSession never
\* returns a completed session.
C13_CompletedIsTerminal ==
  [][/\ \A c \in Clients :
          endGameSession(c) =>
            \E r \in game_sessions' : r.id = activeSession[c] /\ r.status = "completed"
     /\ \A r \in game_sessions :
          r.status = "completed" =>
            \A x \in game_sessions' : x.id = r.id => x.status = "completed"
     /\ \A c \in Clients, ok \in BOOLEAN :
          getActiveGameSession(c, ok) =>
            \A r \in game_sessions : r.status = "completed" => activeSession'[c] # r.id]_vars

\* a session was ended, and the client that ended it has read again and
\* holds the other session, which is active
C13_Witness ==
  \E r \in game_sessions :
    /\ r.status = "completed"
    /\ \A c \in Clients : activeSession[c] # r.id
    /\ \E c \in Clients, x \in ActiveRows : activeSession[c] = x.id

\* ------------------------------------- the setup of the deduction game
setupOut ==
  <<storeVars, callVars, roundVars, resultVars, werewolfVars, sessionVars, guardVars,
    clickers, werewolf_guesses, laterVars>>

Pool == 1..MaxLobby

\* two of the TOPIC_PAIRS
TOPIC_PAIRS ==
  {[citizen |-> "coffee", werewolf |-> "tea"], [citizen |-> "dog", werewolf |-> "cat"]}

\* the effect on mount: getParticipantsForGame and
\* getCurrentParticipantFromRoom answer with what the store holds
fetchGameParticipants(participants, current) ==
  /\ gameParticipants = {}
  /\ currentParticipant = NoPlayer
  /\ setupState.phase = "setup"
  /\ alerts = 0
  /\ participants # {}
  /\ gameParticipants' = participants
  /\ currentParticipant' = current
  /\ UNCHANGED <<setupSessions, setupAssignments, setupState, setupChannel, alerts, setupOut>>

\* one more than the minority
werewolfCountPlusOne(n) == (IF n \div 3 > 1 THEN n \div 3 ELSE 1) + 1

\* Math.max(1, Math.floor(participants.length / 3))
werewolfCount(n) == IF n \div 3 > 1 THEN n \div 3 ELSE 1

\* no row is inserted
assignNoRoles(sessionId, session, participants, first) == {}

\* werewolfService.assignRoles: the rows inserted for the participants, the
\* first werewolfCount of the shuffled list being `first`
assignRoles(sessionId, session, participants, first) ==
  {[session_id |-> sessionId, participant_id |-> q,
    role |-> IF q \in first THEN "werewolf" ELSE "citizen",
    topic |-> IF q \in first THEN session.werewolf_topic ELSE session.citizen_topic] :
     q \in participants}

\* the sets that can be the first k of a shuffle of the participants
Shuffled(participants, k) ==
  {w \in SUBSET participants :
     Cardinality(w) = IF k < Cardinality(participants) THEN k ELSE Cardinality(participants)}

\* the guard of handleStartGame with two participants let through
startRefusedBelowTwo == currentParticipant = NoPlayer \/ Cardinality(gameParticipants) < 2

\* !currentParticipant || gameParticipants.length < 3
startRefused == currentParticipant = NoPlayer \/ Cardinality(gameParticipants) < 3

\* WerewolfGame.handleStartGame on the setup screen.  Refused: an alert and
\* nothing else.  Otherwise createSession, assignRoles, handleGameStart and
\* the werewolf_game_start broadcast; a store call that throws ends the
\* handler in the catch block with an alert.
Setup_handleStartGame(reverse, topicPair, first, outcome) ==
  /\ setupState.phase = "setup"
  /\ alerts < MaxAlerts
  /\ first \in Shuffled(gameParticipants, werewolfCount(Cardinality(gameParticipants)))
  /\ IF startRefused
     THEN /\ alerts' = alerts + 1
          /\ UNCHANGED <<setupSessions, setupAssignments, setupState, setupChannel>>
     ELSE LET sessionId == Len(setupSessions) + 1
              session == [citizen_topic |-> topicPair.citizen,
                          werewolf_topic |-> topicPair.werewolf,
                          phase |-> "setup", reverse_mode |-> reverse]
              rows == assignRoles(sessionId, session, gameParticipants, first)
          IN CASE outcome = "createSession throws" ->
                    /\ alerts' = alerts + 1
                    /\ UNCHANGED <<setupSessions, setupAssignments, setupState, setupChannel>>
               [] outcome = "assignRoles throws" ->
                    /\ setupSessions' = Append(setupSessions, session)
                    /\ alerts' = alerts + 1
                    /\ UNCHANGED <<setupAssignments, setupState, setupChannel>>
               [] outcome = "ok" ->
                    /\ setupSessions' = Append(setupSessions, session)
                    /\ setupAssignments' = setupAssignments \cup rows
                    /\ setupState' =
                         [phase |-> "talk", session |-> sessionId,
                          assignment |->
                            IF currentParticipant \in gameParticipants
                            THEN currentParticipant ELSE NoPlayer]
                    /\ setupChannel' =
                         setupChannel \cup
                           {[event |-> "werewolf_game_start", sessionId |-> sessionId,
                             reverseMode |-> reverse]}
                    /\ UNCHANGED alerts
  /\ UNCHANGED <<gameParticipants, currentParticipant, setupOut>>

InitSetup ==
  /\ ansTable = "game_responses"
  /\ db_responses = {}
  /\ CallsIdle
  /\ RoundIdle
  /\ ResultIdle
  /\ WerewolfIdle
  /\ SessionsIdle
  /\ ExtIdle

NextSetup ==
  \/ \E participants \in SUBSET Pool, current \in {NoPlayer} \cup Pool :
       fetchGameParticipants(participants, current)
  \/ \E reverse \in BOOLEAN, topicPair \in TOPIC_PAIRS, first \in SUBSET Pool,
        outcome \in {"ok", "createSession throws", "assignRoles throws"} :
       Setup_handleStartGame(reverse, topicPair, first, outcome)

SpecSetup == InitSetup /\ [][NextSetup]_vars

\* ---------------------------------------------------- claims on the setup
\* C16: handleStartGame with fewer than 3 participants, or with no confirmed
\* local participant, writes no session row and no assignment row, sends no
\* broadcast, and leaves the local phase setup.
C16_SetupPrecondition ==
  [][\A reverse \in BOOLEAN, topicPair \in TOPIC_PAIRS, first \in SUBSET Pool,
        outcome \in {"ok", "createSession throws", "assignRoles throws"} :
       (/\ Setup_handleStartGame(reverse, topicPair, first, outcome)
        /\ (Cardinality(gameParticipants) < 3 \/ currentParticipant = NoPlayer)) =>
         /\ UNCHANGED <<setupSessions, setupAssignments, setupChannel>>
         /\ setupState'.phase = "setup"]_vars

\* the start button was pressed with two participants and nothing was written
C16_Witness ==
  /\ Cardinality(gameParticipants) = 2
  /\ currentParticipant # NoPlayer
  /\ alerts = 1
  /\ setupSessions = <<>>

\* the assignment rows of session sid
AssignmentsOf(sid) == {r \in setupAssignments : r.session_id = sid}

\* C17: for n >= 3 participants assignRoles creates exactly one assignment
\* per participant, floor(n/3) of them werewolves (which is
\* max(1, floor(n/3)) from 3 on), and an assignment carries the werewolf
\* topic iff its role is werewolf and the citizen topic otherwise.
C17_RoleAssignment ==
  \A sid \in 1..Len(setupSessions) :
    (AssignmentsOf(sid) # {} /\ Cardinality(gameParticipants) >= 3) =>
      LET rows == AssignmentsOf(sid)
          n == Cardinality(gameParticipants)
          k == Cardinality({r \in rows : r.role = "werewolf"})
      IN /\ \A q \in gameParticipants :
              Cardinality({r \in rows : r.participant_id = q}) = 1
         /\ Cardinality(rows) = n
         /\ k >= 1
         /\ 3 * k <= n
         /\ n < 3 * k + 3
         /\ \A r \in rows :
              /\ r.role = "werewolf" => r.topic = setupSessions[sid].werewolf_topic
              /\ r.role # "werewolf" => r.topic = setupSessions[sid].citizen_topic
              /\ setupSessions[sid].werewolf_topic # setupSessions[sid].citizen_topic

\* six participants were assigned, two of them as werewolves
C17_Witness ==
  /\ Cardinality(gameParticipants) = 6
  /\ Cardinality({r \in setupAssignments : r.role = "werewolf"}) = 2
  /\ Cardinality(setupAssignments) = 6

\* ------------------------------------------- claims on what clients hold
\* no client has revealed and no reveal is on its way
BeforeReveal ==
  /\ \A c \in Clients : gameState[c].phase = "answering"
  /\ \A msg \in channel : msg.event # "show_results"

\* C14: in the survey game, before reveal no client receives or holds the
\* answer of another participant under that participant's identity.
C14_IdentityHiding ==
  BeforeReveal =>
    \A c \in Clients : \A p \in Clients \ {c} :
      /\ p \notin DOMAIN gameState[c].responses
      /\ \A msg \in channel :
           (c \in msg.to /\ msg.event = "answer_submitted") => msg.payload.participantId # p

\* the events of the deduction game whose handlers change state
ReplayedEvents ==
  {"werewolf_phase_change", "werewolf_vote_submitted", "werewolf_phase_button_click",
   "werewolf_game_end"}

\* C15: a state-mutating event of the deduction game delivered to a client a
\* second time, right after the first delivery, leaves the client's local
\* state as the first delivery left it and causes no store write and no
\* broadcast.
C15_ReplaySafe ==
  \A p \in Players : \A m \in werewolfChannel :
    (p \in m.to /\ m.event \in ReplayedEvents) =>
      LET first == onWerewolfEvent(m, WerewolfLocal(p))
          second == onWerewolfEvent(m, first.local)
      IN /\ second.local = first.local
         /\ second.phaseChange = NoSession

\* ------------------------------------- the deduction game with reloads
\* votes.reduce((acc, v) => ({...acc, [v.voter_id]: v.target_id}), {})
VotesMap(rows) ==
  [q \in {r.voter_id : r \in rows} |-> (CHOOSE r \in rows : r.voter_id = q).target_id]

\* the page is loaded again: every useState starts from its initial value and
\* restoreGameState reads the session that is not finished, the own
\* assignment and, in the vote phases, the votes of round 1.  The snapshot in
\* localStorage is dropped because the store has a session.
Werewolf_restoreGameState(p) ==
  /\ WerewolfAction
  /\ werewolf_sessions # <<>>
  /\ LET sid == Len(werewolf_sessions)
         activeSession_ == werewolf_sessions[sid]
         voting == activeSession_.phase \in {"vote", "sudden_death"}
         votes == getVotes(1)
     IN /\ werewolfState' =
             [werewolfState EXCEPT ![p] =
                [InitialWerewolfState EXCEPT
                   !.phase = activeSession_.phase,
                   !.session = sid,
                   !.assignment = werewolf_assignments[p],
                   !.votes = IF voting THEN VotesMap(votes) ELSE EmptyMap]]
        /\ hasVoted' = [hasVoted EXCEPT ![p] = voting /\ \E v \in votes : v.voter_id = p]
        /\ reverseMode' = [reverseMode EXCEPT ![p] = activeSession_.reverse_mode]
  /\ phaseButtonClicks' = [phaseButtonClicks EXCEPT ![p] = {}]
  /\ hasClickedPhaseButton' = [hasClickedPhaseButton EXCEPT ![p] = FALSE]
  /\ UNCHANGED <<werewolf_sessions, werewolf_assignments, werewolf_votes, voteRequests,
                 werewolfChannel, clickers, werewolf_guesses, werewolfOut>>

\* the reverse-mode checkbox of the setup screen: onChange
setReverseMode(p, checked) ==
  /\ WerewolfAction
  /\ werewolfState[p].phase = "setup"
  /\ reverseMode[p] # checked
  /\ reverseMode' = [reverseMode EXCEPT ![p] = checked]
  /\ UNCHANGED <<werewolf_sessions, werewolf_assignments, werewolf_votes, voteRequests,
                 werewolfChannel, werewolfState, hasVoted, phaseButtonClicks,
                 hasClickedPhaseButton, clickers, werewolf_guesses, werewolfOut>>

NextWerewolfReload ==
  \/ \E wolf \in {Host, Guest} : handleStartGame(Host, reverseMode[Host], wolf)
  \/ \E p \in Players : handlePhaseButtonClick(p)
  \/ \E p \in Players : \E targetId \in Players \ {p} : handleVote(p, targetId)
  \/ \E p \in Players : handleShowResults(p)
  \/ \E p \in Players : WerewolfReceive(p)
  \/ \E p \in Players : Werewolf_restoreGameState(p)
  \/ \E p \in Players, checked \in BOOLEAN : setReverseMode(p, checked)

SpecWerewolfReload == InitWerewolf /\ [][NextWerewolfReload]_vars

\* C19: when the tally has one candidate with the most votes, the next phase
\* is reverse_chance iff the candidate is the werewolf and the session was
\* created with reverse mode; otherwise the tallying client is finished with
\* eliminatedPlayer the candidate and winner citizen iff the candidate is
\* the werewolf, else werewolf.
C19_UniqueMaximum ==
  [][\A p \in Players :
       (/\ handleShowResults(p)
        /\ Cardinality(eliminatedCandidates(getVotes(werewolfState[p].voteRound))) = 1) =>
         LET sid == werewolfState[p].session
             cand == CHOOSE id \in
                       eliminatedCandidates(getVotes(werewolfState[p].voteRound)) : TRUE
             minority == werewolf_assignments[cand] = "werewolf"
         IN IF minority /\ werewolf_sessions[sid].reverse_mode
            THEN /\ werewolf_sessions'[sid].phase = "reverse_chance"
                 /\ werewolfState'[p].phase # "finished"
            ELSE /\ werewolfState'[p].phase = "finished"
                 /\ werewolfState'[p].gameResult =
                      [winner |-> IF minority THEN "citizen" ELSE "werewolf",
                       eliminatedPlayer |-> cand]
                 /\ werewolf_sessions'[sid].phase # "reverse_chance"]_vars

\* a client writes phase vote: the store row changes to vote, or a
\* werewolf_phase_change to vote is sent
VoteWritten ==
  \/ \E sid \in DOMAIN werewolf_sessions :
       werewolf_sessions[sid].phase # "vote" /\ werewolf_sessions'[sid].phase = "vote"
  \/ \E m \in werewolfChannel' \ werewolfChannel :
       m.event = "werewolf_phase_change" /\ m.payload.phase = "vote"

C20_ReverseChance ==
  [][\A p \in Players, werewolfGuess \in Texts :
       handleWerewolfGuess(p, werewolfGuess) =>
         LET topic == werewolf_sessions[werewolfState[p].session].citizen_topic
             winner == IF werewolfGuess = topic THEN "werewolf" ELSE "citizen"
         IN /\ \E m \in werewolfChannel' :
                 /\ m.event = "werewolf_game_end"
                 /\ m.from = p
                 /\ m.to = Players \ {p}
                 /\ m.payload.result.winner = winner
            /\ werewolfState'[p].phase = "finished"]_vars

\* the first half of C20: the winner of a guess
C20_WinnerByExactMatch ==
  [][\A p \in Players, werewolfGuess \in Texts :
       handleWerewolfGuess(p, werewolfGuess) =>
         \E m \in werewolfChannel' :
           /\ m.event = "werewolf_game_end"
           /\ m.from = p
           /\ m.payload.result.winner =
                IF werewolfGuess = werewolf_sessions[werewolfState[p].session].citizen_topic
                THEN "werewolf" ELSE "citizen"]_vars

\* the second half of C20: the guessing client is finished after its guess
C20_GuesserFinished ==
  [][\A p \in Players, werewolfGuess \in Texts :
       handleWerewolfGuess(p, werewolfGuess) => werewolfState'[p].phase = "finished"]_vars

\* ------------------------------------------------- the concurrency guard
\* withGameLock of gameService and withLock of roomService are the same
\* function over two pairs of maps; one client process and its keys.
guardOut ==
  <<storeVars, callVars, roundVars, resultVars, werewolfVars, sessionVars, setupVars,
    clickers, werewolf_guesses, laterVars>>

NewLockCall(k, st, h) == [key |-> k, status |-> st, holder |-> h]

\* withGameLock(key, operation) is entered.  With the key in the lock map the
\* operation is wrapped and pushed on the queue of the key; otherwise the key
\* is set and the operation begins at once.
withGameLock(k) ==
  /\ Len(lockCalls) < MaxLockCalls
  /\ LET i == Len(lockCalls) + 1
     IN IF operationLocks[k]
        THEN /\ lockCalls' = Append(lockCalls, NewLockCall(k, "queued", FALSE))
             /\ operationQueues' = [operationQueues EXCEPT ![k] = Append(@, i)]
             /\ UNCHANGED <<operationLocks, started>>
        ELSE /\ lockCalls' = Append(lockCalls, NewLockCall(k, "executing", TRUE))
             /\ operationLocks' = [operationLocks EXCEPT ![k] = TRUE]
             /\ started' = [started EXCEPT ![k] = Append(@, i)]
             /\ UNCHANGED operationQueues
  /\ UNCHANGED <<timers, guardOut>>

\* the operation of call i resolves or rejects.  The caller that set the key
\* runs the finally block: the key is deleted, and the head of the queue, if
\* any, is shifted and handed to setTimeout.  A wrapper taken from the queue
\* has no finally block: it settles its promise and touches neither map.
operationSettles(i) ==
  /\ i <= Len(lockCalls)
  /\ lockCalls[i].status = "executing"
  /\ LET k == lockCalls[i].key
         q == operationQueues[k]
     IN IF lockCalls[i].holder
        THEN /\ operationLocks' = [operationLocks EXCEPT ![k] = FALSE]
             /\ IF Len(q) > 0
                THEN /\ operationQueues' = [operationQueues EXCEPT ![k] = Tail(q)]
                     /\ lockCalls' = [lockCalls EXCEPT ![i].status = "settled",
                                                       ![Head(q)].status = "scheduled"]
                     /\ timers' = Append(timers, Head(q))
                ELSE /\ lockCalls' = [lockCalls EXCEPT ![i].status = "settled"]
                     /\ UNCHANGED <<operationQueues, timers>>
        ELSE /\ lockCalls' = [lockCalls EXCEPT ![i].status = "settled"]
             /\ UNCHANGED <<operationLocks, operationQueues, timers>>
  /\ UNCHANGED <<started, guardOut>>

\* setTimeout(() => nextOperation(), 0) fires, timers of equal delay in the
\* order they were set: the wrapper calls operation()
nextOperation(i) ==
  /\ timers # <<>>
  /\ i = Head(timers)
  /\ timers' = Tail(timers)
  /\ lockCalls' = [lockCalls EXCEPT ![i].status = "executing"]
  /\ started' = [started EXCEPT ![lockCalls[i].key] = Append(@, i)]
  /\ UNCHANGED <<operationLocks, operationQueues, guardOut>>

InitGuard ==
  /\ ansTable = "game_responses"
  /\ db_responses = {}
  /\ CallsIdle
  /\ RoundIdle
  /\ ResultIdle
  /\ WerewolfIdle
  /\ SessionsIdle
  /\ ExtIdle

NextGuard ==
  \/ \E k \in GuardKeys : withGameLock(k)
  \/ \E i \in 1..MaxLockCalls : operationSettles(i)
  \/ \E i \in 1..MaxLockCalls : nextOperation(i)

SpecGuard == InitGuard /\ [][NextGuard]_vars

\* ---------------------------------------------------- claims on the guard
\* the operations of key k that are executing
Executing(k) ==
  {i \in 1..Len(lockCalls) : lockCalls[i].key = k /\ lockCalls[i].status = "executing"}

\* the calls of key k that had to wait, in call order
Waiters(k) ==
  SelectSeq([i \in 1..Len(lockCalls) |-> i],
            LAMBDA i : lockCalls[i].key = k /\ ~lockCalls[i].holder)

\* the waiters of key k whose operation has begun, in the order they began
StartedWaiters(k) == SelectSeq(started[k], LAMBDA i : ~lockCalls[i].holder)

\* C11: for every key at most one guarded operation is executing at any
\* time, and the operations of the callers that waited begin in call order.
C11_GuardExclusionAndOrder ==
  \A k \in GuardKeys :
    /\ Cardinality(Executing(k)) <= 1
    /\ StartedWaiters(k) = SubSeq(Waiters(k), 1, Len(StartedWaiters(k)))

\* the order half of C11 alone
C11_WaitersInCallOrder ==
  \A k \in GuardKeys :
    StartedWaiters(k) = SubSeq(Waiters(k), 1, Len(StartedWaiters(k)))

\* ------------------------------------------- the retry loops of the services
\* createGameSession, createQuestion, submitResponse of gameService and
\* joinRoom of roomService run the same loop: attempt, and in the catch
\* block attempt again while retryCount < maxRetries - 1
retryOut ==
  <<storeVars, callVars, roundVars, resultVars, werewolfVars, sessionVars, guardVars,
    setupVars, clickers, werewolf_guesses, snapVars, extraRounds, failedWrites>>

RetryOps == {"createGameSession", "createQuestion", "submitResponse", "joinRoom"}

\* a loop whose bound is one attempt too many
maxRetriesPlusOne(op, mobile) ==
  (IF op = "joinRoom"
   THEN IF mobile THEN JoinMobileMaxRetries ELSE JoinDesktopMaxRetries
   ELSE IF mobile THEN MobileMaxRetries ELSE DesktopMaxRetries) + 1

\* const maxRetries = isMobile ? 3 : 1, and isMobile ? 5 : 3 in joinRoom
maxRetriesOf(op, mobile) ==
  IF op = "joinRoom"
  THEN IF mobile THEN JoinMobileMaxRetries ELSE JoinDesktopMaxRetries
  ELSE IF mobile THEN MobileMaxRetries ELSE DesktopMaxRetries

\* the operation is called: let retryCount = 0, and the first attempt begins
callOperation(op, mobile) ==
  /\ Len(retryCalls) < MaxRetryCalls
  /\ retryCalls' =
       Append(retryCalls, [op |-> op, mobile |-> mobile, retryCount |-> 0, attempts |-> 0,
                           status |-> "attempting"])
  /\ UNCHANGED retryOut

\* the attempt returns data: the promise of the call resolves
attemptReturns(i) ==
  /\ i <= Len(retryCalls)
  /\ retryCalls[i].status = "attempting"
  /\ retryCalls' = [retryCalls EXCEPT ![i].attempts = @ + 1, ![i].status = "resolved"]
  /\ UNCHANGED retryOut

\* the attempt throws: the catch block attempts again while
\* retryCount < maxRetries - 1 and rethrows otherwise
attemptThrows(i) ==
  /\ i <= Len(retryCalls)
  /\ retryCalls[i].status = "attempting"
  /\ IF retryCalls[i].retryCount < maxRetriesOf(retryCalls[i].op, retryCalls[i].mobile) - 1
     THEN retryCalls' = [retryCalls EXCEPT ![i].attempts = @ + 1, ![i].retryCount = @ + 1]
     ELSE retryCalls' = [retryCalls EXCEPT ![i].attempts = @ + 1, ![i].status = "rejected"]
  /\ UNCHANGED retryOut

InitRetry ==
  /\ ansTable = "game_responses"
  /\ db_responses = {}
  /\ CallsIdle
  /\ RoundIdle
  /\ ResultIdle
  /\ WerewolfIdle
  /\ SessionsIdle
  /\ ExtIdle

NextRetry ==
  \/ \E op \in RetryOps, mobile \in BOOLEAN : callOperation(op, mobile)
  \/ \E i \in 1..MaxRetryCalls : attemptReturns(i)
  \/ \E i \in 1..MaxRetryCalls : attemptThrows(i)

SpecRetry == InitRetry /\ [][NextRetry]_vars

\* the bound the claim gives: 5 / 3 for joinRoom, 3 / 1 for the others
ClaimedAttempts(c) ==
  IF c.op = "joinRoom" THEN IF c.mobile THEN 5 ELSE 3 ELSE IF c.mobile THEN 3 ELSE 1

\* C21: a call makes at most maxRetries attempts (3 on mobile and 1 otherwise;
\* joinRoom 5 and 3), rejects when that many attempts have failed, and makes
\* no attempt after one that succeeded.
C21_BoundedRetry ==
  [][\A i \in 1..Len(retryCalls') :
       LET c == retryCalls'[i]
       IN /\ c.attempts <= ClaimedAttempts(c)
          /\ c.status = "attempting" => c.attempts < ClaimedAttempts(c)
          /\ c.status = "rejected" => c.attempts = ClaimedAttempts(c)
          /\ (i <= Len(retryCalls) /\ retryCalls[i].status \in {"resolved", "rejected"}) =>
               c = retryCalls[i]]_vars

\* a mobile joinRoom was rejected after five attempts and a mobile
\* createQuestion resolved on its second attempt
C21_Witness ==
  /\ \E i \in 1..Len(retryCalls) :
       /\ retryCalls[i].op = "joinRoom"
       /\ retryCalls[i].mobile
       /\ retryCalls[i].status = "rejected"
       /\ retryCalls[i].attempts = 5
  /\ \E i \in 1..Len(retryCalls) :
       /\ retryCalls[i].op = "createQuestion"
       /\ retryCalls[i].status = "resolved"
       /\ retryCalls[i].attempts = 2

\* ------------------------------- the snapshot of the ranking component
\* One browser of a room whose session another participant starts and ends.
\* The component writes its state to localStorage after every change and
\* reads it back when the page is loaded.
snapOut ==
  <<storeVars, callVars, roundVars, resultVars, werewolfVars, sessionVars, guardVars,
    setupVars, clickers, werewolf_guesses, retryCalls, extraRounds, failedWrites>>

\* the one session and the one question of the room
SnapSession == 1
SnapQuestion == 1

\* the effect on [gameState, ..., isRestoringState]: setItem with the state
\* and timestamp: new Date().toISOString()
saveState(state) == <<[state |-> state, age |-> "fresh"]>>

\* gameService.createGameSession called from the lobby of another browser
Snap_createGameSession ==
  /\ roomStore.session = "none"
  /\ roomStore' = [roomStore EXCEPT !.session = "active"]
  /\ UNCHANGED <<localStorage, rankingState, lastRestore, snapOut>>

\* gameService.createQuestion called by the questioner on another browser
Snap_createQuestion ==
  /\ roomStore.session = "active"
  /\ roomStore.question = NoQuestion
  /\ roomStore' = [roomStore EXCEPT !.question = SnapQuestion]
  /\ UNCHANGED <<localStorage, rankingState, lastRestore, snapOut>>

\* gameService.endGameSession called by another browser
Snap_endGameSession ==
  /\ roomStore.session = "active"
  /\ roomStore' = [roomStore EXCEPT !.session = "completed"]
  /\ UNCHANGED <<localStorage, rankingState, lastRestore, snapOut>>

\* the handler of ranking_question_submitted, and the save effect after it
onRankingQuestionSubmitted ==
  /\ roomStore.question # NoQuestion
  /\ rankingState.questionId = NoQuestion
  /\ rankingState' =
       [phase |-> "answering", questionId |-> SnapQuestion, sessionId |-> SnapSession,
        hasAnswered |-> FALSE]
  /\ localStorage' = saveState(rankingState')
  /\ UNCHANGED <<roomStore, lastRestore, snapOut>>

\* handleAnswer: the row is written, hasAnswered is set, the effect saves
Snap_handleAnswer ==
  /\ rankingState.phase = "answering"
  /\ ~rankingState.hasAnswered
  /\ roomStore' = [roomStore EXCEPT !.answered = TRUE]
  /\ rankingState' = [rankingState EXCEPT !.hasAnswered = TRUE]
  /\ localStorage' = saveState(rankingState')
  /\ UNCHANGED <<lastRestore, snapOut>>

\* the handler of game_end: endGameSession(currentGameSessionId), removeItem,
\* onClose() unmounts the component
onGameEnd ==
  /\ roomStore.session = "completed"
  /\ rankingState.sessionId # NoSession
  /\ localStorage' = <<>>
  /\ rankingState' = InitialRankingState
  /\ UNCHANGED <<roomStore, lastRestore, snapOut>>

\* thirty minutes pass: now - stateTime < 30 * 60 * 1000 no longer holds
thirtyMinutesPass ==
  /\ localStorage # <<>>
  /\ localStorage[1].age = "fresh"
  /\ localStorage' = <<[localStorage[1] EXCEPT !.age = "stale"]>>
  /\ UNCHANGED <<roomStore, rankingState, lastRestore, snapOut>>

\* gameService.getActiveGameSession: the active row, and null both when
\* there is none and when the query failed (the catch block returns null)
Snap_getActiveGameSession(readOk) ==
  IF readOk /\ roomStore.session = "active" THEN SnapSession ELSE NoSession

\* the state restoreGameState sets from the rows it read
stateOfSession(session) ==
  IF session # NoSession /\ roomStore.question # NoQuestion
  THEN [phase |-> "answering", questionId |-> roomStore.question,
        sessionId |-> session, hasAnswered |-> roomStore.answered]
  ELSE [InitialRankingState EXCEPT !.sessionId = session]

\* The page is loaded: the state is the useState initial state, then
\* restoreGameState reads the store and the snapshot, and once
\* isRestoringState is false again the effect saves the state.
Snap_restoreGameState(readOk) ==
  LET session == Snap_getActiveGameSession(readOk)
      storedState == localStorage
  IN /\ rankingState' =
          IF /\ storedState # <<>>
             /\ storedState[1].age = "fresh"
             /\ session = NoSession
          THEN storedState[1].state
          ELSE stateOfSession(session)
     /\ localStorage' = saveState(rankingState')
     /\ lastRestore' =
          <<[read |-> IF ~readOk THEN "failed"
                      ELSE IF roomStore.session = "active" THEN "session" ELSE "none",
             item |-> storedState]>>
     /\ UNCHANGED <<roomStore, snapOut>>

InitSnapshot ==
  /\ ansTable = "ranking_responses"
  /\ db_responses = {}
  /\ CallsIdle
  /\ RoundIdle
  /\ ResultIdle
  /\ WerewolfIdle
  /\ SessionsIdle
  /\ ExtIdle

NextSnapshot ==
  \/ Snap_createGameSession
  \/ Snap_createQuestion
  \/ Snap_endGameSession
  \/ onRankingQuestionSubmitted
  \/ Snap_handleAnswer
  \/ onGameEnd
  \/ thirtyMinutesPass
  \/ \E readOk \in BOOLEAN : Snap_restoreGameState(readOk)

SpecSnapshot == InitSnapshot /\ [][NextSnapshot]_vars

\* the last restore read the store successfully
ReadSucceeded == lastRestore # <<>> /\ lastRestore[1].read # "failed"

\* C22: snapshot precedence.  When the read of the room's active session
\* succeeded, with a session or with none, the state restoreGameState leaves
\* is the state of the rows read and not the snapshot; the snapshot is
\* applied only when the store could not be read.
C22_SnapshotPrecedence ==
  [][(lastRestore' # lastRestore /\ ReadSucceeded') =>
       rankingState' = stateOfSession(Snap_getActiveGameSession(TRUE))]_vars

\* the part of C22 the component keeps: a read that returned a session wins
C22_SessionReadWins ==
  [][(lastRestore' # lastRestore /\ lastRestore'[1].read = "session") =>
       rankingState' = stateOfSession(SnapSession)]_vars

\* ------------------------------------------------ claims on the restore
\* the state a restore of c must leave while a round is active: the round,
\* the rows of the store, and the answered flag of c's own row
CaughtUp(c) ==
  LET rows == {r \in db_responses : r.question_id = LatestQuestion.id}
  IN /\ gameState[c].phase = "answering"
     /\ gameState[c].questionId = LatestQuestion.id
     /\ gameState[c].questionerId = LatestQuestion.questioner_id
     /\ gameState[c].responses = ResponseMap(rows)
     /\ hasAnswered[c] <=> \E r \in rows : r.participant_id = c

\* C23: reconciler catch-up.  A component that mounts while the session has
\* an active round ends restoreGameState in the answering phase with that
\* round's id and questioner and the answer set of the store, and its
\* hasAnswered flag is true iff the store holds its own answer row.
C23_ReconcilerCatchUp ==
  [][(mounts' # mounts /\ ActiveQuestions # {}) =>
       \E c \in Clients :
         /\ CaughtUp(c)'
         /\ \A o \in Clients \ {c} :
              gameState'[o] = gameState[o] /\ hasAnswered'[o] = hasAnswered[o]]_vars

\* C24: round phase machine.  Whatever the order, loss or duplication of the
\* broadcasts, a component that is not being mounted never enters results
\* from waiting_for_question or questioner_selected, and never goes from
\* results to questioner_selected or answering; its phase moves only along
\* waiting_for_question -> questioner_selected -> answering -> results ->
\* waiting_for_question.
C24_RoundPhaseMachine ==
  [][mounts' = mounts =>
       \A c \in Clients :
         LET from == gameState[c].phase
             to == gameState'[c].phase
         IN /\ ~(from \in {"waiting_for_question", "questioner_selected"} /\ to = "results")
            /\ ~(from = "results" /\ to \in {"questioner_selected", "answering"})]_vars

\* ------------------------------------------- two rounds of the survey game
\* The survey components of two clients over two questions: the handlers of
\* SpecSurvey, with no page load and no clock tick.
InitRounds ==
  /\ ansTable = "game_responses"
  /\ db_responses = {}
  /\ CallsIdle
  /\ RoundIdle
  /\ ResultIdle
  /\ WerewolfIdle
  /\ SessionsIdle
  /\ GuardIdle
  /\ SetupIdle
  /\ RetryIdle
  /\ SnapIdle
  /\ clickers = {}
  /\ werewolf_guesses = {}
  /\ extraRounds = 1
  /\ failedWrites = 0

NextRounds ==
  \/ \E c \in Clients : handleBecomeQuestioner(c)
  \/ \E c \in Clients : handleSubmitQuestion(c)
  \/ \E c \in Clients : handleSubmitQuestion_send(c)
  \/ \E c \in Clients : handleAnswer(c, TRUE)
  \/ \E c \in Clients : Survey_handleShowResults(c)
  \/ \E c \in Clients : handleNewRound(c)
  \/ \E c \in Clients : Receive(c)

SpecRounds == InitRounds /\ [][NextRounds]_vars

\* c enters the answering phase of a question in this step
EntersAnswering(c) ==
  /\ gameState'[c].phase = "answering"
  /\ gameState[c].phase # "answering" \/ gameState'[c].questionId # gameState[c].questionId

\* the local answers of c are answers the store holds for c's question
OnlyThisRound(c) ==
  \A p \in DOMAIN gameState[c].responses :
    \E r \in db_responses :
      /\ r.question_id = gameState[c].questionId
      /\ r.participant_id = p
      /\ r.value = gameState[c].responses[p]

\* C25: entering the answering phase clears the prior answers.  When a
\* component enters answering for a question, by its own handleSubmitQuestion
\* or by question_submitted, its responses are empty and hasAnswered is
\* false, and while it is answering its responses are answers given for
\* that question, never one given for an earlier question.
C25_EnteringClears ==
  [][\A c \in Clients :
       /\ EntersAnswering(c) =>
            gameState'[c].responses = EmptyMap /\ ~hasAnswered'[c]
       /\ gameState'[c].phase = "answering" => OnlyThisRound(c)']_vars

\* the part of C25 the handlers keep: the map and the flag at the entry
C25_ClearedAtEntry ==
  [][\A c \in Clients :
       EntersAnswering(c) => gameState'[c].responses = EmptyMap /\ ~hasAnswered'[c]]_vars

\* totalResponses = Object.keys(gameState.responses).length
totalResponses(c) == Cardinality(DOMAIN gameState[c].responses)

\* C26: monotone answered count.  While a component stays in one round
\* (same question, no mount), the number of participants whose answer it
\* holds never decreases, whatever the order or loss of the broadcasts and
\* whatever handleShowResults reads.
C26_MonotoneCount ==
  [][mounts' = mounts =>
       \A c \in Clients :
         (gameState[c].questionId # NoQuestion
            /\ gameState'[c].questionId = gameState[c].questionId) =>
           totalResponses(c)' >= totalResponses(c)]_vars

\* ---------------------------------------- handlers whose store write fails
\* The question and answer handlers of the three components, with a
\* createQuestion / submit*Response call that may throw.
writesOut ==
  <<storeVars, callVars, resultVars, werewolfVars, sessionVars, guardVars, setupVars,
    clickers, werewolf_guesses, retryCalls, snapVars, extraRounds>>

\* a handler that sends although its write threw
sentRegardless(ok, msgs) == msgs

\* the broadcasts of a handler follow `await gameService.<write>(...)` inside
\* its try block: a write that throws skips them
sentAfterWrite(ok, msgs) == IF ok THEN msgs ELSE {}

\* handleSubmitQuestion whose createQuestion throws: the catch block alerts
createQuestionThrows(c) ==
  /\ UserAction
  /\ gameState[c].phase = "questioner_selected"
  /\ isQuestioner[c] /\ gameState[c].questionerId = c
  /\ questionData[c] = NoQuestion
  /\ failedWrites < MaxFailedWrites
  /\ failedWrites' = failedWrites + 1
  /\ channel' = Send(channel, sentAfterWrite(FALSE,
       {Msg(GameTopic, "question_submitted", c, ansTable # "ranking_responses",
            [questionId |-> NoQuestion, questionerId |-> c])}))
  /\ UNCHANGED <<now, db_questions, gameState, hasAnswered, isQuestioner, responseCache,
                 questionData, mounts, appliedQuestions, writesOut>>

\* handleAnswer / handleSubmitRank / handleSubmitAnswer whose submit call
\* throws: setHasAnswered(true), then the catch block sets it false and alerts
submitResponseThrows(c, t, v) ==
  /\ UserAction
  /\ ansTable = t
  /\ ~hasAnswered[c]
  /\ gameState[c].questionId # NoQuestion
  /\ gameState[c].phase = "answering"
  /\ failedWrites < MaxFailedWrites
  /\ failedWrites' = failedWrites + 1
  /\ channel' = Send(channel, sentAfterWrite(FALSE,
       {Msg(GameTopic, "answer_submitted", c, FALSE, [participantId |-> c, answer |-> v])}))
  /\ UNCHANGED <<now, db_questions, gameState, hasAnswered, isQuestioner, responseCache,
                 questionData, mounts, appliedQuestions, writesOut>>

InitWrites ==
  /\ ansTable \in Tables
  /\ db_responses = {}
  /\ CallsIdle
  /\ RoundIdle
  /\ ResultIdle
  /\ WerewolfIdle
  /\ SessionsIdle
  /\ ExtIdle

NextWrites ==
  \/ \E c \in Clients : handleBecomeQuestioner(c)
  \/ \E c \in Clients : handleSubmitQuestion(c)
  \/ \E c \in Clients : createQuestionThrows(c)
  \/ \E c \in Clients : handleSubmitQuestion_send(c)
  \/ \E c \in Clients, v \in InputsOf("game_responses") : handleAnswer(c, v)
  \/ \E c \in Clients, v \in InputsOf("ranking_responses") : handleSubmitRank(c, v)
  \/ \E c \in Clients, v \in InputsOf("synchro_responses") : handleSubmitAnswer(c, v)
  \/ \E c \in Clients, t \in Tables : \E v \in InputsOf(t) : submitResponseThrows(c, t, v)
  \/ \E c \in Clients : Receive(c)

SpecWrites == InitWrites /\ [][NextWrites]_vars

\* event and payload of the broadcasts in flight
Sent(ch) == {[event |-> m.event, payload |-> m.payload] : m \in ch}

\* the row a broadcast tells of is in the store
Persisted(m) ==
  /\ m.event = "question_submitted" =>
       \E q \in db_questions :
         q.id = m.payload.questionId /\ q.questioner_id = m.payload.questionerId
  /\ m.event = "answer_submitted" =>
       \E r \in db_responses :
         /\ r.question_id \in {q.id : q \in db_questions}
         /\ r.participant_id = m.payload.participantId
         /\ r.value = m.payload.answer

\* C27: persist before broadcast.  A question_submitted carries the id of
\* a question row the store holds when it is sent, an answer_submitted tells
\* of an answer row the store holds when it is sent, and a handler whose
\* write threw sends nothing and leaves the phase, the answers and the rows
\* as they were.
C27_PersistBeforeBroadcast ==
  [][/\ \A m \in Sent(channel') \ Sent(channel) : Persisted(m)'
     /\ failedWrites' # failedWrites =>
          /\ channel' = channel
          /\ gameState' = gameState
          /\ hasAnswered' = hasAnswered
          /\ db_questions' = db_questions
          /\ db_responses' = db_responses]_vars

\* a write has failed, and an answer of a persisted question is in flight
C27_Witness ==
  /\ failedWrites = 1
  /\ \E m \in channel : m.event = "answer_submitted"
  /\ db_questions # {}

\* C28: round activity invariant.  The session has at most one question row
\* with is_active = true: creating a question, or starting a new round,
\* leaves the question that was active before inactive.
C28_RoundActivity == Cardinality(ActiveQuestions) <= 1

\* C29: single active session.  Whatever the sequence of createGameSession
\* and endGameSession calls of the clients, the room has at most one
\* game_sessions row with status active.
C29_SingleActiveSession == Cardinality(ActiveRows) <= 1

\* the vote rows of a voter in a round
VotesOf(rows, p, n) == {r \in rows : r.voter_id = p /\ r.vote_round = n}

NextInitiator ==
  \/ \E c \in Clients : handleBecomeQuestioner(c)
  \/ \E c \in Clients : handleSubmitQuestion(c)
  \/ \E c \in Clients : handleSubmitQuestion_send(c)
  \/ \E c \in Clients : Receive(c)

SpecInitiator == InitRounds /\ [][NextInitiator]_vars

\* every client has handled question_submitted of every question created
AllApplied ==
  /\ db_questions # {}
  /\ \A c \in Clients : \A q \in db_questions : q.id \in appliedQuestions[c]

\* the clients hold the same questioner and the same question
Agreed ==
  \A c, d \in Clients :
    /\ gameState[c].questionerId = gameState[d].questionerId
    /\ gameState[c].questionId = gameState[d].questionId

\* C31: initiator disagreement is resolved by the prompt.  Once every
\* client has handled the question_submitted event of every question
\* created and no event is left undelivered, all clients hold the same
\* questionerId and the same questionId.
C31_InitiatorAgreement ==
  (AllApplied /\ channel = {}) => Agreed

\* C32: retries are safe to repeat.  The store holds at most one
\* game_sessions row per createGameSession call made, however many attempts
\* the calls took and whether or not an attempt's answer was lost.
C32_RetriesIdempotent ==
  Cardinality(game_sessions) <= Len(sessionCalls)

\* C33: assignment before the first phase broadcast.  Every
\* werewolf_game_start sent names a session for which the store holds exactly
\* one assignment row of every participant; the starting client, when it is a
\* participant, has entered talk holding its own assignment; and a
\* handleStartGame whose assignRoles throws sends no broadcast, writes no
\* assignment and leaves the phase setup.
C33_AssignedBeforeStart ==
  [][/\ \A msg \in setupChannel' : \A q \in gameParticipants' :
          Cardinality({r \in setupAssignments' :
                         r.session_id = msg.sessionId /\ r.participant_id = q}) = 1
     /\ (setupState'.phase = "talk" /\ currentParticipant' \in gameParticipants') =>
          /\ setupState'.assignment = currentParticipant'
          /\ \E r \in setupAssignments' :
               r.session_id = setupState'.session /\ r.participant_id = currentParticipant'
     /\ \A reverse \in BOOLEAN, topicPair \in TOPIC_PAIRS, first \in SUBSET Pool :
          Setup_handleStartGame(reverse, topicPair, first, "assignRoles throws") =>
            /\ UNCHANGED <<setupAssignments, setupChannel>>
            /\ setupState'.phase = "setup"]_vars

\* werewolf_game_start was sent for a session of four assigned participants
C33_Witness ==
  /\ \E msg \in setupChannel : msg.event = "werewolf_game_start"
  /\ Cardinality(gameParticipants) = 4
  /\ Cardinality(setupAssignments) = 4
  /\ setupState.phase = "talk"

\* The guard under the scheduling of the event loop: an operation that is
\* executing settles (every guarded operation terminates) and a timer that
\* was set fires.  Whether a further call is made is up to the callers.
SpecGuardLive ==
  /\ InitGuard
  /\ [][NextGuard]_vars
  /\ \A i \in 1..MaxLockCalls :
       WF_vars(operationSettles(i)) /\ WF_vars(nextOperation(i))

\* C34: guard liveness.  Every call made to withGameLock / withLock
\* eventually has run its operation and settled, whatever the number of
\* callers queued on its key, and with no further call being made.
C34_GuardLiveness ==
  \A i \in 1..MaxLockCalls :
    (i <= Len(lockCalls)) ~> (i <= Len(lockCalls) /\ lockCalls[i].status = "settled")

\* C35: vote round agreement.  When a client submits a vote after a tie
\* escalation, every client that shows the tally button (phase vote) holds
\* the round number the vote is stored under, so the next tally reads it.
C35_VoteRoundAgreement ==
  [][\A p \in Players : \A targetId \in Players \ {p} :
       (handleVote(p, targetId) /\ Escalated) =>
         \A q \in Players :
           werewolfState[q].phase = "vote" =>
             werewolfState[q].voteRound = werewolfState[p].voteRound]_vars

\* C36: the store phase tracks the deduction game.  With every broadcast
\* delivered, a client whose local phase is talk, vote, sudden_death,
\* reverse_chance or finished finds the same phase in the row of its session.
C36_StorePhaseTracks ==
  werewolfChannel = {} =>
    \A p \in Players :
      (/\ werewolfState[p].session # NoSession
       /\ werewolfState[p].phase \in
            {"talk", "vote", "sudden_death", "reverse_chance", "finished"}) =>
        werewolf_sessions[werewolfState[p].session].phase = werewolfState[p].phase

\* the finished half of C36 alone: with every broadcast delivered, a client
\* in finished finds finished in the row of its session
C36_FinishedStored ==
  werewolfChannel = {} =>
    \A p \in Players :
      (werewolfState[p].session # NoSession /\ werewolfState[p].phase = "finished") =>
        werewolf_sessions[werewolfState[p].session].phase = "finished"

\* C37: winner agreement.  Any two clients that are in finished for the
\* same session hold the same gameResult.
C37_WinnerAgreement ==
  \A p, q \in Players :
    (/\ werewolfState[p].phase = "finished"
     /\ werewolfState[q].phase = "finished"
     /\ werewolfState[p].session = werewolfState[q].session) =>
      werewolfState[p].gameResult = werewolfState[q].gameResult

\* C38: reconciliation matches the live peers after reveal and after a new
\* round.  With every client in results for the latest question, a client
\* that mounts again ends restoreGameState in results; with every client
\* back in waiting_for_question after having handled every question created,
\* a client that mounts again ends restoreGameState in waiting_for_question.
C38_RestoreAfterReveal ==
  [][\A c \in Clients, reload \in BOOLEAN :
       restoreGameState(c, reload) =>
         /\ (\A d \in Clients :
               /\ gameState[d].phase = "results"
               /\ \A q \in db_questions : q.id <= gameState[d].questionId) =>
              gameState'[c].phase = "results"
         /\ (\A d \in Clients :
               /\ gameState[d].phase = "waiting_for_question"
               /\ appliedQuestions[d] # {}
               /\ \A q \in db_questions : q.id \in appliedQuestions[d]) =>
              gameState'[c].phase = "waiting_for_question"]_vars

\* the new-round half of C38 alone
C38_RestoreAfterNewRound ==
  [][\A c \in Clients, reload \in BOOLEAN :
       (/\ restoreGameState(c, reload)
        /\ \A d \in Clients :
             /\ gameState[d].phase = "waiting_for_question"
             /\ appliedQuestions[d] # {}
             /\ \A q \in db_questions : q.id \in appliedQuestions[d]) =>
         gameState'[c].phase = "waiting_for_question"]_vars

\* C39: read-your-writes through the answer cache.  Once the store holds
\* the answer a client submitted for a question, a getQuestionResponses of
\* that question on that client returns a set containing the answer.
C39_ReadYourWrites ==
  \A c \in Clients : \A r \in db_responses :
    r.participant_id = c =>
      r \in getQuestionResponses(responseCache[c], r.question_id).data

\* ------------------------------------------ a store read that fails
\* AnonymousSurveyGame.handleShowResults when the read of
\* gameService.getQuestionResponses fails: with no cache entry young enough
\* the select is sent, its error is caught inside getQuestionResponses, which
\* returns [] and leaves the cache alone; the handler goes on with the empty
\* list as it does with any other
Survey_handleShowResults_catch(c) ==
  /\ UserAction
  /\ ansTable = "game_responses"
  /\ gameState[c].phase = "answering"
  /\ gameState[c].questionId # NoQuestion
  /\ LET q == gameState[c].questionId
         cache == responseCache[c]
         responseMap == ResponseMap({})
     IN /\ ~(q \in DOMAIN cache /\ now - cache[q].timestamp < CACHE_DURATION)
        /\ channel' = Send(channel,
             {Msg(SyncTopic, "sync_responses", c, FALSE, [responses |-> responseMap]),
              Msg(GameTopic, "show_results", c, FALSE, EmptyMap)})
        /\ gameState' = [gameState EXCEPT ![c].responses = responseMap,
                                          ![c].phase = "results"]
  /\ UNCHANGED <<now, db_questions, hasAnswered, isQuestioner, responseCache, storeVars,
                 roundIdle>>

NextReadFails ==
  \/ \E c \in Clients, reload \in BOOLEAN : restoreGameState(c, reload)
  \/ \E c \in Clients : handleBecomeQuestioner(c)
  \/ \E c \in Clients : handleSubmitQuestion(c)
  \/ \E c \in Clients : handleSubmitQuestion_send(c)
  \/ \E c \in Clients, v \in InputsOf("game_responses") : handleAnswer(c, v)
  \/ \E c \in Clients : Survey_handleShowResults(c)
  \/ \E c \in Clients : Survey_handleShowResults_catch(c)
  \/ \E c \in Clients : handleNewRound(c)
  \/ \E c \in Clients : Receive(c)
  \/ Tick

SpecReadFails == InitSurvey /\ [][NextReadFails]_vars

\* C40: a failed store read at reveal does not lose answers.  A
\* handleShowResults whose read of the answers fails leaves the local answer
\* map of the client as it was.
C40_FailedReadKeepsAnswers ==
  [][\A c \in Clients :
       Survey_handleShowResults_catch(c) =>
         gameState'[c].responses = gameState[c].responses]_vars

====
